---- MODULE Spec2Model ----
(***************************************************************************)
(* Model of the rangeguard keeper's planning core:                         *)
(*   - tick alignment and range construction (uniswap/ticks.ts)            *)
(*   - amount selection with quote-driven rescaling (amounts.ts)           *)
(*   - boundary liquidity math (uniswap/position.ts)                       *)
(*   - bootstrapCommand and rebalanceCommand up to the unlock payload      *)
(*   - the unlock payloads (uniswap/planner.ts)                            *)
(*   - the cooldown gate and the commands' use of it (policy/policy.ts)    *)
(* Each pure function is an operator computed as the TypeScript computes   *)
(* it; each specification draws the inputs in Init and applies the         *)
(* functions in its actions.                                               *)
(***************************************************************************)
EXTENDS Integers, Sequences, FiniteSets, TLC

VARIABLES
    \* ---- tick math call under test ----
    tpc,          \* "start" | "done"
    tfn,          \* name of the function that was applied
    tick,         \* current pool tick (input)
    spacing,      \* tick spacing (input)
    widthTicks,   \* requested width (input)
    tres,         \* result record of the applied function
    \* ---- one selectAmounts call ----
    apc,          \* "init" | "quote" | "requote" | "done"
    params,       \* AmountSelectionParams of the call (input)
    amount0,      \* let amount0
    amount1,      \* let amount1
    derived,      \* let derived
    scaled,       \* let scaled
    warnings,     \* const warnings: string[]
    quote,        \* let quote (QuoteInfo, or NoQuote)
    derivedAmount,\* derivedAmount1 / derivedAmount0 of the running branch
    loopI,        \* the rescale loop's i
    outcome,      \* "none" | "plan" | message of the error thrown
    quoteCalls,   \* number of quoteExact invocations so far
    rescales,     \* number of scaleInputToFit applications so far
    quoteFailed,  \* "no" | "initial" | "requote": a quoteExact call rejected
    \* ---- boundary liquidity math call under test ----
    bpc,          \* "idle" | "start" | "done"
    bfn,          \* name of the function(s) applied
    bmode,        \* BootstrapMode (input)
    bamount0,     \* amount0 (input)
    bamount1,     \* amount1 (input)
    sqrtLowerX96, \* getSqrtRatioAtTick(tickLower), as returned by the SDK
    sqrtUpperX96, \* getSqrtRatioAtTick(tickUpper), as returned by the SDK
    bmin,         \* result of computeBoundaryMinAmountForLiquidityOne
    bliq,         \* result of computeBoundaryLiquidity
    \* ---- one bootstrapCommand / rebalanceCommand run ----
    cpc,          \* "idle" | "start" | "select" | "done"
    command,      \* "none" | "bootstrap" | "rebalance"
    opts,         \* options, config and chain state the run reads (input)
    crange,       \* computeBootstrapTicks / centerRange result
    bootstrapWarnings, \* const bootstrapWarnings: string[]
    cres,         \* how the run ended: payload arguments or error
    \* ---- one planner call (uniswap/planner.ts) ----
    ppc,          \* "idle" | "start" | "done"
    pfn,          \* "none" | name of the builder called
    pargs,        \* params of the builder (input)
    unlockData,   \* the builder's result: encoded bytes or error
    \* ---- the cooldown gate and the keeper processes using it ----
    now,          \* nowSeconds(): the wall clock, in seconds
    cooldownSeconds, \* policy.cooldownSeconds
    file,         \* ~/.rangeguard/keeper-state.json
    kpc,          \* per keeper process: where its running command stands
    krun,         \* per keeper process: command, vault address and options
    kstate,       \* per keeper process: const state = await readState()
    koutcome,     \* per keeper process: how its last command ended
    lastSent,     \* per key: when a run last sent, and if forced (history)
    recordedAt    \* per key: when recordAction last completed (history)

tickVars == <<tpc, tfn, tick, spacing, widthTicks, tres>>

amountVars == <<apc, params, amount0, amount1, derived, scaled, warnings,
                quote, derivedAmount, loopI, outcome, quoteCalls, rescales,
                quoteFailed>>

boundaryVars == <<bpc, bfn, bmode, bamount0, bamount1, sqrtLowerX96,
                  sqrtUpperX96, bmin, bliq>>

commandVars == <<cpc, command, opts, crange, bootstrapWarnings, cres>>

plannerVars == <<ppc, pfn, pargs, unlockData>>

cooldownVars ==
    <<now, cooldownSeconds, file, kpc, krun, kstate, koutcome, lastSent,
      recordedAt>>

vars ==
    <<tickVars, amountVars, boundaryVars, commandVars, plannerVars,
      cooldownVars>>

\* what each subsystem leaves alone
nonTickVars ==
    <<amountVars, boundaryVars, commandVars, plannerVars, cooldownVars>>
nonAmountVars ==
    <<tickVars, boundaryVars, commandVars, plannerVars, cooldownVars>>
nonBoundaryVars ==
    <<tickVars, amountVars, commandVars, plannerVars, cooldownVars>>

-----------------------------------------------------------------------------
(* Bounds of the tick inputs *)

\* radius of the window of ticks drawn around every anchor tick
TickSlack == 2
\* widths k * spacing are drawn for k in -1 .. MaxWidthMul
MaxWidthMul == 3

-----------------------------------------------------------------------------
(* JavaScript number helpers (all values stay far below 2^53, so the      *)
(* double arithmetic of the source is exact on them)                       *)

Abs(x) == IF x < 0 THEN -x ELSE x

\* Math.floor(a / b) for b # 0
FloorDiv(a, b) == IF b > 0 THEN a \div b ELSE (-a) \div (-b)

\* Math.ceil(a / b) for b # 0
CeilDiv(a, b) == -FloorDiv(-a, b)

\* a % b of JavaScript for b # 0: the remainder takes the dividend's sign
JsRem(a, b) == IF a >= 0 THEN a % Abs(b) ELSE -((-a) % Abs(b))

\* (a % b !== 0); a % 0 is NaN, and NaN !== 0
RemNonZero(a, b) == IF b = 0 THEN TRUE ELSE JsRem(a, b) # 0

-----------------------------------------------------------------------------
(* uniswap/ticks.ts *)

MIN_TICK == -887272
MAX_TICK == 887272

NoResult ==
    [ok |-> FALSE, err |-> "none", val |-> 0, lower |-> 0, upper |-> 0,
     mode |-> "none", minAligned |-> 0, maxAligned |-> 0]

\* throw new KeeperError(msg)
KeeperError(msg) == [NoResult EXCEPT !.err = msg]

Value(v) == [NoResult EXCEPT !.ok = TRUE, !.val = v]

minAlignedTick(s) == CeilDiv(MIN_TICK, s) * s
maxAlignedTick(s) == FloorDiv(MAX_TICK, s) * s

\* mutant: rounds toward zero (Math.trunc) instead of Math.floor
alignDownHalf_trunc(t2, s) ==
    IF s <= 0 THEN KeeperError("Invalid tick spacing")
    ELSE Value((IF t2 >= 0 THEN FloorDiv(t2, 2 * s) ELSE CeilDiv(t2, 2 * s)) * s)

\* mutant: Math.ceil instead of Math.floor
alignDownHalf_ceil(t2, s) ==
    IF s <= 0 THEN KeeperError("Invalid tick spacing")
    ELSE Value(CeilDiv(t2, 2 * s) * s)

\* mutant: Math.floor instead of Math.ceil
alignUpHalf_floor(t2, s) ==
    IF s <= 0 THEN KeeperError("Invalid tick spacing")
    ELSE Value(FloorDiv(t2, 2 * s) * s)

\* alignDown on a tick given in half units (t2 = 2 * tick), as
\* computeBootstrapTicks passes tick - widthTicks / 2
alignDownHalf(t2, s) ==
    IF s <= 0 THEN KeeperError("Invalid tick spacing")
    ELSE Value(FloorDiv(t2, 2 * s) * s)

alignUpHalf(t2, s) ==
    IF s <= 0 THEN KeeperError("Invalid tick spacing")
    ELSE Value(CeilDiv(t2, 2 * s) * s)

alignDown(t, s) == alignDownHalf(2 * t, s)
alignUp(t, s) == alignUpHalf(2 * t, s)

isAligned(t, s) == ~RemNonZero(t, s)

RangeOf(lo, up) == [NoResult EXCEPT !.ok = TRUE, !.lower = lo, !.upper = up]

\* mutant: the check of the tick against the aligned bounds is missing
computeRangeTicksGuards_noTickCheck(t, s, w) ==
    IF w <= 0 THEN "widthTicks must be positive"
    ELSE IF RemNonZero(w, s)
    THEN "widthTicks must be a multiple of tick spacing"
    ELSE IF w > maxAlignedTick(s) - minAlignedTick(s)
    THEN "widthTicks exceeds allowed tick range"
    ELSE "ok"

\* mutant: the tick is checked against the lower aligned bound only
computeRangeTicksGuards_noUpperTickCheck(t, s, w) ==
    IF w <= 0 THEN "widthTicks must be positive"
    ELSE IF RemNonZero(w, s)
    THEN "widthTicks must be a multiple of tick spacing"
    ELSE IF t < minAlignedTick(s)
    THEN "tick outside supported range for spacing"
    ELSE IF w > maxAlignedTick(s) - minAlignedTick(s)
    THEN "widthTicks exceeds allowed tick range"
    ELSE "ok"

\* the input checks of computeRangeTicks, in the order the source makes
\* them: the message of the first one that throws, or "ok"
computeRangeTicksGuards(t, s, w) ==
    IF w <= 0 THEN "widthTicks must be positive"
    ELSE IF RemNonZero(w, s)
    THEN "widthTicks must be a multiple of tick spacing"
    ELSE IF t < minAlignedTick(s) \/ t > maxAlignedTick(s)
    THEN "tick outside supported range for spacing"
    ELSE IF w > maxAlignedTick(s) - minAlignedTick(s)
    THEN "widthTicks exceeds allowed tick range"
    ELSE "ok"

\* mutant: the clamp at the upper bound forgets to move the lower tick
computeRangeTicksClamp_keepLower(lower, w, minTick, maxTick) ==
    IF lower < minTick THEN <<minTick, minTick + w>>
    ELSE IF lower + w > maxTick THEN <<lower, maxTick>>
    ELSE <<lower, lower + w>>

\* the clamp of computeRangeTicks at the global bounds:
\* <<adjustedLower, upper>>
computeRangeTicksClamp(lower, w, minTick, maxTick) ==
    IF lower < minTick THEN <<minTick, minTick + w>>
    ELSE IF lower + w > maxTick THEN <<maxTick - w, maxTick>>
    ELSE <<lower, lower + w>>

computeRangeTicks(t, s, w) ==
    LET guard == computeRangeTicksGuards(t, s, w) IN
    IF guard # "ok" THEN KeeperError(guard)
    ELSE
    LET half == FloorDiv(w, 2)
        low  == alignDown(t - half, s)
    IN
    IF ~low.ok THEN low
    ELSE
    LET r == computeRangeTicksClamp(low.val, w, minAlignedTick(s),
                                    maxAlignedTick(s))
        adjustedLower == r[1]
        upper == r[2]
    IN
    IF adjustedLower >= upper THEN KeeperError("Invalid tick range")
    ELSE IF ~isAligned(adjustedLower, s) \/ ~isAligned(upper, s)
    THEN KeeperError("Tick range not aligned to spacing")
    ELSE RangeOf(adjustedLower, upper)

centerRange(t, w, s) == computeRangeTicks(t, s, w)

\* mutant: the mode follows the pin (set also when only the outward
\* alignment pushed the window past a bound)
computeBootstrapMode_pinned(t, minTick, maxTick, pinUp, pinLow) ==
    IF pinUp THEN "ABOVE_MAX"
    ELSE IF pinLow THEN "BELOW_MIN"
    ELSE "IN_RANGE"

\* the mode tag of computeBootstrapTicks; the two later re-assignments of
\* the source (inside the pin branches) are kept as written
computeBootstrapMode(t, minTick, maxTick, pinUp, pinLow) ==
    LET mode0 ==
            IF t > maxTick THEN "ABOVE_MAX"
            ELSE IF t < minTick THEN "BELOW_MIN"
            ELSE "IN_RANGE"
    IN
    IF pinUp /\ mode0 = "IN_RANGE" /\ t > maxTick THEN "ABOVE_MAX"
    ELSE IF pinLow /\ mode0 = "IN_RANGE" /\ t < minTick THEN "BELOW_MIN"
    ELSE mode0

\* mutant: the pin at the lower bound is missing
computeBootstrapPin_noLowPin(lower, upper, w, minTick, maxTick) ==
    IF upper > maxTick THEN <<maxTick - w, maxTick>>
    ELSE <<lower, upper>>

\* the pin of computeBootstrapTicks at the global bounds: <<lower, upper>>
computeBootstrapPin(lower, upper, w, minTick, maxTick) ==
    IF upper > maxTick THEN <<maxTick - w, maxTick>>
    ELSE IF lower < minTick THEN <<minTick, minTick + w>>
    ELSE <<lower, upper>>

computeBootstrapTicks(t, s, w) ==
    IF w <= 0 THEN KeeperError("widthTicks must be positive")
    ELSE IF RemNonZero(w, s)
    THEN KeeperError("widthTicks must be a multiple of tick spacing")
    ELSE
    LET minTick == minAlignedTick(s)
        maxTick == maxAlignedTick(s)
    IN
    IF w > maxTick - minTick
    THEN KeeperError("widthTicks exceeds allowed tick range")
    ELSE
    \* half = widthTicks / 2 is a double: rawLower and rawUpper are kept in
    \* half units
    LET low == alignDownHalf(2 * t - w, s)
        up  == alignUpHalf(2 * t + w, s)
    IN
    IF ~low.ok THEN low
    ELSE IF ~up.ok THEN up
    ELSE
    LET pinUp  == up.val > maxTick
        pinLow == ~pinUp /\ low.val < minTick
        r == computeBootstrapPin(low.val, up.val, w, minTick, maxTick)
        lower == r[1]
        upper == r[2]
        mode == computeBootstrapMode(t, minTick, maxTick, pinUp, pinLow)
    IN
    IF upper <= lower THEN KeeperError("Invalid tick range after alignment")
    ELSE [NoResult EXCEPT !.ok = TRUE, !.lower = lower, !.upper = upper,
                          !.mode = mode, !.maxAligned = maxTick,
                          !.minAligned = minTick]

-----------------------------------------------------------------------------
(* amounts.ts: values of the call state before selectAmounts runs *)

\* amount0Input / amount1Input: an optional decimal string of whole units
NoInput == [given |-> FALSE, units |-> 0]
Input(n) == [given |-> TRUE, units |-> n]
NoQuote == [direction |-> "none", amountIn |-> 0, amountOut |-> 0,
            bufferBps |-> 0]

NoParams ==
    [balance0 |-> 0, balance1 |-> 0, amount0Input |-> NoInput,
     amount1Input |-> NoInput, token0Decimals |-> 0, token1Decimals |-> 0,
     useFullBalances |-> FALSE, quoterAddress |-> FALSE, bufferBps |-> 0,
     maxSpendBps |-> 0]

AmountLocalsInit ==
    /\ amount0 = 0
    /\ amount1 = 0
    /\ derived = FALSE
    /\ scaled = FALSE
    /\ warnings = <<>>
    /\ quote = NoQuote
    /\ derivedAmount = 0
    /\ loopI = 0
    /\ outcome = "none"
    /\ quoteCalls = 0
    /\ rescales = 0
    /\ quoteFailed = "no"

\* no selectAmounts call is under way (the other specifications)
AmountIdle ==
    /\ apc = "idle"
    /\ params = NoParams
    /\ AmountLocalsInit

\* result of a boundary function that was not called
NoBoundaryResult == [ok |-> FALSE, err |-> "none", val |-> 0]

BoundaryIdle ==
    /\ bpc = "idle"
    /\ bfn = "none"
    /\ bmode = "IN_RANGE"
    /\ bamount0 = 0
    /\ bamount1 = 0
    /\ sqrtLowerX96 = 0
    /\ sqrtUpperX96 = 0
    /\ bmin = NoBoundaryResult
    /\ bliq = NoBoundaryResult

NoOptions ==
    [tickCurrent |-> 0, tickSpacing |-> 0, widthTicks |-> 0,
     amount0 |-> NoInput, amount1 |-> NoInput, maxSpendBps |-> NoInput,
     useFullBalances |-> FALSE, quoterAddress |-> FALSE,
     balance0 |-> 0, balance1 |-> 0]

\* a run that has not ended
NoCommandResult ==
    [outcome |-> "none", amount0 |-> 0, amount1 |-> 0, liquidity |-> 0,
     amount0Max |-> 0, amount1Max |-> 0, boundaryMinAmount |-> 0,
     limit0 |-> 0, limit1 |-> 0, reachedLiquidity |-> FALSE]

CommandIdle ==
    /\ cpc = "idle"
    /\ command = "none"
    /\ opts = NoOptions
    /\ crange = NoResult
    /\ bootstrapWarnings = <<>>
    /\ cres = NoCommandResult

\* an optional Hex argument that was omitted
NoHex == [given |-> FALSE, bytes |-> <<>>]

\* the params of the builders; poolKey's fields are currency0, currency1,
\* fee, tickSpacing and hooks
NoPlannerArgs ==
    [tokenId |-> 0, amount0Min |-> 0, amount1Min |-> 0,
     hookData |-> NoHex, currency0 |-> 0, currency1 |-> 0, recipient |-> 0,
     oldTokenId |-> 0, oldLiquidity |-> 0,
     fee |-> 0, tickSpacing |-> 0, hooks |-> 0,
     newTickLower |-> 0, newTickUpper |-> 0, newLiquidity |-> 0,
     amount0Max |-> 0, amount1Max |-> 0, owner |-> 0,
     tickLower |-> 0, tickUpper |-> 0, liquidity |-> 0]

NoUnlockData == [ok |-> FALSE, err |-> "none", data |-> <<>>]

PlannerIdle ==
    /\ ppc = "idle"
    /\ pfn = "none"
    /\ pargs = NoPlannerArgs
    /\ unlockData = NoUnlockData

\* the keeper processes
Keepers == {"k1", "k2"}

\* a map without entries: {} and an absent lastActionAt
EmptyMap == [k \in {} |-> 0]

\* sentAt: when the run's transaction was broadcast (history)
NoRun == [command |-> "none", vaultAddress |-> "none", force |-> FALSE,
          send |-> FALSE, sentAt |-> 0]

\* keeper-state.json before the first writeState
NoFile == [exists |-> FALSE, lastActionAt |-> EmptyMap]

CooldownIdle ==
    /\ now = 1
    /\ cooldownSeconds = 0
    /\ file = NoFile
    /\ kpc = [k \in Keepers |-> "idle"]
    /\ krun = [k \in Keepers |-> NoRun]
    /\ kstate = [k \in Keepers |-> EmptyMap]
    /\ koutcome = [k \in Keepers |-> "none"]
    /\ lastSent = EmptyMap
    /\ recordedAt = EmptyMap

-----------------------------------------------------------------------------
(* Inputs of the tick specification *)

Spacings == {-60, 0, 1, 3, 60, 200}

AnchorTicks(s) ==
    {MIN_TICK, MAX_TICK, 0, 599, 12345, -12345, 887271, -887271}
        \cup (IF s = 0 THEN {} ELSE {minAlignedTick(s), maxAlignedTick(s)})

TicksFor(s) ==
    {a + d : a \in AnchorTicks(s), d \in (-TickSlack)..TickSlack}

WidthsFor(s) ==
    {k * Abs(s) : k \in (-1)..MaxWidthMul}
        \cup {3, 1200, 1210}
        \cup (IF s = 0 THEN {}
              ELSE {maxAlignedTick(s) - minAlignedTick(s),
                    maxAlignedTick(s) - minAlignedTick(s) + Abs(s)})

TickInit ==
    /\ AmountIdle
    /\ BoundaryIdle
    /\ CommandIdle
    /\ PlannerIdle
    /\ CooldownIdle
    /\ tpc = "start"
    /\ tfn = "none"
    /\ spacing \in Spacings
    /\ tick \in TicksFor(spacing)
    /\ widthTicks \in WidthsFor(spacing)
    /\ tres = NoResult

Apply(fn, res) ==
    /\ tpc = "start"
    /\ tpc' = "done"
    /\ tfn' = fn
    /\ tres' = res
    /\ UNCHANGED <<tick, spacing, widthTicks>>
    /\ UNCHANGED nonTickVars

CallAlignDown == Apply("alignDown", alignDown(tick, spacing))

CallAlignUp == Apply("alignUp", alignUp(tick, spacing))

CallComputeRangeTicks ==
    Apply("computeRangeTicks", computeRangeTicks(tick, spacing, widthTicks))

CallCenterRange ==
    Apply("centerRange", centerRange(tick, widthTicks, spacing))

CallComputeBootstrapTicks ==
    Apply("computeBootstrapTicks",
          computeBootstrapTicks(tick, spacing, widthTicks))

TickNext ==
    \/ CallAlignDown
    \/ CallAlignUp
    \/ CallComputeRangeTicks
    \/ CallCenterRange
    \/ CallComputeBootstrapTicks

SpecTicks == TickInit /\ [][TickNext]_vars


-----------------------------------------------------------------------------
(* Properties of the tick math *)

TickDone(fn) == tpc = "done" /\ tfn = fn

BootstrapOk == TickDone("computeBootstrapTicks") /\ tres.ok

RangeOk == TickDone("computeRangeTicks") /\ tres.ok

\* the result of computeBootstrapTicks touches neither aligned global bound
BootstrapNotPinned ==
    /\ tres.upper # tres.maxAligned
    /\ tres.lower # tres.minAligned

\* C1: every range returned by computeBootstrapTicks or computeRangeTicks
\* has lower < upper, both ticks multiples of the spacing, and lies inside
\* [minAlignedTick(spacing), maxAlignedTick(spacing)].
C1_RangeWellFormed ==
    (BootstrapOk \/ RangeOk) =>
        /\ spacing > 0
        /\ tres.lower < tres.upper
        /\ tres.lower % spacing = 0
        /\ tres.upper % spacing = 0
        /\ minAlignedTick(spacing) <= tres.lower
        /\ tres.upper <= maxAlignedTick(spacing)

\* C1 witness: a bootstrap range that had to be pinned at the lower bound
C1_Witness ==
    /\ BootstrapOk
    /\ tick < minAlignedTick(spacing)
    /\ tres.lower = minAlignedTick(spacing)

\* C2 as stated: an unpinned bootstrap range is exactly widthTicks wide.
C2_UnpinnedWidthExact ==
    (BootstrapOk /\ BootstrapNotPinned) =>
        tres.upper - tres.lower = widthTicks

\* C2 amended: an unpinned bootstrap range is widthTicks wide when
\* tick - widthTicks/2 is a multiple of the spacing, and widthTicks + spacing
\* wide otherwise (the outward alignment adds one spacing).
C2_UnpinnedWidthAligned ==
    (BootstrapOk /\ BootstrapNotPinned) =>
        tres.upper - tres.lower =
            (IF (2 * tick - widthTicks) % (2 * spacing) = 0
             THEN widthTicks
             ELSE widthTicks + spacing)

\* C2 witness: an unpinned range wider than widthTicks
C2_Witness ==
    /\ BootstrapOk
    /\ BootstrapNotPinned
    /\ tres.upper - tres.lower = widthTicks + spacing

\* C3: the mode is ABOVE_MAX exactly when tick > maxAligned, BELOW_MIN
\* exactly when tick < minAligned, IN_RANGE otherwise; an ABOVE_MAX range is
\* pinned to [maxAligned - widthTicks, maxAligned]; and the worked example
\* computeBootstrapTicks(887271, 60, 1200).
C3_ModeFollowsRawTick ==
    BootstrapOk =>
        /\ tres.mode = "ABOVE_MAX" <=> tick > maxAlignedTick(spacing)
        /\ tres.mode = "BELOW_MIN" <=> tick < minAlignedTick(spacing)
        /\ tres.mode = "IN_RANGE" <=>
              (minAlignedTick(spacing) <= tick /\ tick <= maxAlignedTick(spacing))
        /\ tres.mode = "ABOVE_MAX" =>
              /\ tres.upper = maxAlignedTick(spacing)
              /\ tres.lower = maxAlignedTick(spacing) - widthTicks
        /\ (tick = 887271 /\ spacing = 60 /\ widthTicks = 1200) =>
              /\ tres.maxAligned = 887220
              /\ tres.minAligned = -887220
              /\ tres.lower = 886020
              /\ tres.upper = 887220
              /\ tres.mode = "ABOVE_MAX"

\* C3 witness: IN_RANGE although the outward alignment pushed the window
\* past maxAligned and the range was pinned
C3_Witness ==
    /\ BootstrapOk
    /\ tres.mode = "IN_RANGE"
    /\ tick < maxAlignedTick(spacing)
    /\ tres.upper = maxAlignedTick(spacing)
    /\ tres.upper - tres.lower = widthTicks
    /\ (2 * tick + widthTicks) > 2 * maxAlignedTick(spacing)

\* C4 as stated: an IN_RANGE bootstrap range includes the current tick,
\* lower <= tick < upper.
C4_InRangeIncludesTick ==
    (BootstrapOk /\ tres.mode = "IN_RANGE") =>
        (tres.lower <= tick /\ tick < tres.upper)

\* C4 amended: an IN_RANGE bootstrap range has lower <= tick <= upper, and
\* tick < upper unless tick = maxAlignedTick(spacing) (the range is then
\* pinned with upper = tick); computeBootstrapTicks(599, 60, 1200) gives
\* lower = -60, upper = 1200, IN_RANGE.
C4_InRangeIncludesTickBelowMax ==
    (BootstrapOk /\ tres.mode = "IN_RANGE") =>
        /\ tres.lower <= tick
        /\ tick <= tres.upper
        /\ tick = tres.upper => tick = maxAlignedTick(spacing)
        /\ tick = maxAlignedTick(spacing) => tick = tres.upper
        /\ (tick = 599 /\ spacing = 60 /\ widthTicks = 1200) =>
              (tres.lower = -60 /\ tres.upper = 1200)

\* C4 witness: the worked example, an unaligned tick strictly inside
C4_Witness ==
    /\ BootstrapOk
    /\ tres.mode = "IN_RANGE"
    /\ tick = 599 /\ spacing = 60 /\ widthTicks = 1200
    /\ tres.lower <= tick /\ tick < tres.upper

\* C5: every range returned by computeRangeTicks is exactly widthTicks wide.
C5_RangeWidthExact ==
    RangeOk => tres.upper - tres.lower = widthTicks

\* C5 witness: a negative tick whose range was clamped at the lower bound
C5_Witness ==
    /\ RangeOk
    /\ tick < 0
    /\ tres.lower = minAlignedTick(spacing)
    /\ tick - (widthTicks \div 2) < minAlignedTick(spacing)

\* C6: computeRangeTicks returns no range and throws when widthTicks <= 0,
\* when widthTicks is no multiple of the spacing, when the tick lies outside
\* [minAligned, maxAligned], or when widthTicks > maxAligned - minAligned.
C6_RangeRejectsBadInput ==
    TickDone("computeRangeTicks") =>
        /\ widthTicks <= 0 =>
              (~tres.ok /\ tres.err = "widthTicks must be positive")
        /\ (widthTicks > 0 /\ spacing > 0 /\ widthTicks % spacing # 0) =>
              (~tres.ok /\
               tres.err = "widthTicks must be a multiple of tick spacing")
        /\ (tick = 0 /\ spacing = 60 /\ widthTicks = 1210) =>
              (~tres.ok /\
               tres.err = "widthTicks must be a multiple of tick spacing")
        /\ (spacing > 0 /\ (tick < minAlignedTick(spacing)
                            \/ tick > maxAlignedTick(spacing))) =>
              /\ ~tres.ok
              /\ (widthTicks > 0 /\ widthTicks % spacing = 0) =>
                    tres.err = "tick outside supported range for spacing"
        /\ (spacing > 0 /\ widthTicks >
                maxAlignedTick(spacing) - minAlignedTick(spacing)) =>
              /\ ~tres.ok
              /\ (widthTicks % spacing = 0
                  /\ minAlignedTick(spacing) <= tick
                  /\ tick <= maxAlignedTick(spacing)) =>
                    tres.err = "widthTicks exceeds allowed tick range"

\* C6 witness: a valid width, but a tick beyond the aligned bound
C6_Witness ==
    /\ TickDone("computeRangeTicks")
    /\ spacing = 60
    /\ widthTicks = 1200
    /\ tick > maxAlignedTick(spacing)
    /\ ~tres.ok

\* C7: for spacing > 0, alignDown(t) <= t < alignDown(t) + spacing and
\* alignUp(t) - spacing < t <= alignUp(t), both multiples of the spacing;
\* for spacing <= 0 both throw "Invalid tick spacing".
C7_AlignBrackets ==
    /\ (TickDone("alignDown") /\ spacing > 0) =>
          /\ tres.ok
          /\ tres.val <= tick
          /\ tick < tres.val + spacing
          /\ tres.val % spacing = 0
    /\ (TickDone("alignUp") /\ spacing > 0) =>
          /\ tres.ok
          /\ tres.val - spacing < tick
          /\ tick <= tres.val
          /\ tres.val % spacing = 0
    /\ ((TickDone("alignDown") \/ TickDone("alignUp")) /\ spacing <= 0) =>
          (~tres.ok /\ tres.err = "Invalid tick spacing")

\* C7 witness: a negative tick between two multiples of the spacing
C7_Witness ==
    /\ TickDone("alignDown")
    /\ spacing = 60
    /\ tick < 0
    /\ tres.ok
    /\ tres.val < tick

-----------------------------------------------------------------------------
(* amounts.ts and uniswap/quoter.ts *)

\* bounds of the selectAmounts inputs
MaxBalance == 2
BigBalance == 1000
MaxInput == 2
MaxQuote == 3
MaxDecimals == 1

\* for (let i = 0; i < 5; i += 1)
RescaleAttempts == 5

\* BigInt division truncates toward zero
BigDiv(a, b) ==
    IF (a >= 0) = (b > 0) THEN Abs(a) \div Abs(b) ELSE -(Abs(a) \div Abs(b))

Pow10(n) == IF n = 0 THEN 1 ELSE IF n = 1 THEN 10 ELSE 100

\* viem parseUnits on a whole-number decimal string
parseUnits(value, decimals) == value.units * Pow10(decimals)

ClampWarning(label) ==
    IF label = "token0" THEN "token0 amount clamped to vault balance"
    ELSE "token1 amount clamped to vault balance"

\* mutant: the amount is passed through unclamped
clampAmount_noClamp(amount, limit, label, w) ==
    [amount |-> amount, warnings |-> w]

\* mutant: clamps without pushing the warning
clampAmount_silent(amount, limit, label, w) ==
    IF amount > limit
    THEN [amount |-> limit, warnings |-> w]
    ELSE [amount |-> amount, warnings |-> w]

clampAmount(amount, limit, label, w) ==
    IF amount > limit
    THEN [amount |-> limit, warnings |-> Append(w, ClampWarning(label))]
    ELSE [amount |-> amount, warnings |-> w]

applyMaxSpend(balance, maxSpendBps) ==
    IF maxSpendBps >= 10000 THEN balance
    ELSE IF maxSpendBps <= 0 THEN 0
    ELSE BigDiv(balance * maxSpendBps, 10000)

\* mutant: the 0.5% margin is applied above the proportional fit
scaleInputToFit_marginAbove(input, derivedAmt, limit) ==
    IF derivedAmt = 0
    THEN [ok |-> FALSE, val |-> 0]
    ELSE [ok |-> TRUE, val |-> BigDiv(input * limit * 1005, derivedAmt * 1000)]

scaleInputToFit(input, derivedAmt, limit) ==
    IF derivedAmt = 0
    THEN [ok |-> FALSE, val |-> 0]
    ELSE [ok |-> TRUE, val |-> BigDiv(input * limit * 995, derivedAmt * 1000)]

applyBpsBuffer(value, bpsBuffer) ==
    IF bpsBuffer < 0 \/ bpsBuffer > 10000
    THEN [ok |-> FALSE, val |-> 0]
    ELSE [ok |-> TRUE, val |-> BigDiv(value * (10000 + bpsBuffer), 10000)]

limit0Of(p) == applyMaxSpend(p.balance0, p.maxSpendBps)
limit1Of(p) == applyMaxSpend(p.balance1, p.maxSpendBps)

\* the branch taken when one side is given: 0 when amount0Input is given
\* (token1 is derived), 1 otherwise (token0 is derived)
InputSide(p) == IF p.amount0Input # NoInput THEN 0 ELSE 1

DerivedLimit(p) == IF InputSide(p) = 0 THEN limit1Of(p) ELSE limit0Of(p)

\* the local variables of the running call, as one record
Locals ==
    [apc |-> apc, amount0 |-> amount0, amount1 |-> amount1,
     derived |-> derived, scaled |-> scaled, warnings |-> warnings,
     quote |-> quote, derivedAmount |-> derivedAmount, loopI |-> loopI,
     outcome |-> outcome, quoteCalls |-> quoteCalls, rescales |-> rescales,
     quoteFailed |-> quoteFailed]

\* throw new KeeperError(msg): the call rejects
Throw(l, msg) == [l EXCEPT !.apc = "done", !.outcome = msg]

\* return { amount0, amount1, derived, scaled, warnings, quote }
Return(l) == [l EXCEPT !.apc = "done", !.outcome = "plan"]

InputAmount(p, l) == IF InputSide(p) = 0 THEN l.amount0 ELSE l.amount1

WithInputAmount(p, l, v) ==
    IF InputSide(p) = 0 THEN [l EXCEPT !.amount0 = v]
    ELSE [l EXCEPT !.amount1 = v]

WithDerivedAmount(p, l, v) ==
    IF InputSide(p) = 0 THEN [l EXCEPT !.amount1 = v]
    ELSE [l EXCEPT !.amount0 = v]

\* selectAmounts from its entry to the first await (or to its return)
StartStep(p, l) ==
    LET limit0 == limit0Of(p)
        limit1 == limit1Of(p)
        has0 == p.amount0Input # NoInput
        has1 == p.amount1Input # NoInput
        c0 == clampAmount(parseUnits(p.amount0Input, p.token0Decimals),
                          limit0, "token0", l.warnings)
        \* token1 clamped after token0 (both given)
        c01 == clampAmount(parseUnits(p.amount1Input, p.token1Decimals),
                           limit1, "token1",
                           IF has0 THEN c0.warnings ELSE l.warnings)
        \* token1 clamped alone
        c1 == clampAmount(parseUnits(p.amount1Input, p.token1Decimals),
                          limit1, "token1", l.warnings)
    IN
    IF p.useFullBalances
    THEN Return([l EXCEPT
            !.amount0 = IF has0 THEN c0.amount ELSE limit0,
            !.amount1 = IF has1 THEN c01.amount ELSE limit1,
            !.warnings = IF has1 THEN c01.warnings
                         ELSE IF has0 THEN c0.warnings ELSE l.warnings])
    ELSE IF ~has0 /\ ~has1
    THEN Throw(l, "Provide --amount0 and/or --amount1 when useFullBalances=false")
    ELSE IF has0 /\ has1
    THEN Return([l EXCEPT !.amount0 = c0.amount, !.amount1 = c01.amount,
                          !.warnings = c01.warnings])
    ELSE IF ~p.quoterAddress
    THEN Throw(l, "QUOTER_ADDRESS is required to derive the other token amount")
    ELSE IF has0
    THEN [l EXCEPT !.amount0 = c0.amount, !.warnings = c0.warnings,
                   !.apc = "quote", !.quoteCalls = @ + 1]
    ELSE [l EXCEPT !.amount1 = c1.amount, !.warnings = c1.warnings,
                   !.apc = "quote", !.quoteCalls = @ + 1]

\* mutant: one more pass of the rescale loop
LoopContinues_offByOne(i) == i <= RescaleAttempts

\* the loop condition i < 5
LoopContinues(i) == i < RescaleAttempts

\* the rescale loop from its head (with i = l.loopI) to the next await, or
\* past the loop to the return
LoopStep(p, l) ==
    LET limit == DerivedLimit(p)
        side == InputSide(p)
    IN
    IF LoopContinues(l.loopI) /\ l.derivedAmount > limit
    THEN
        LET sc == scaleInputToFit(InputAmount(p, l), l.derivedAmount, limit)
            l1 == [WithInputAmount(p, l, sc.val) EXCEPT !.rescales = @ + 1]
        IN
        IF ~sc.ok
        THEN Throw(l, "Derived amount is zero; cannot scale input")
        ELSE IF sc.val <= 0
        THEN Throw(l1, IF side = 0
                       THEN "Scaled amount0 fell to zero while fitting token1 balance"
                       ELSE "Scaled amount1 fell to zero while fitting token0 balance")
        ELSE [l1 EXCEPT !.apc = "requote", !.quoteCalls = @ + 1]
    ELSE
        IF l.derivedAmount > limit
        THEN Throw(l, IF side = 0
                      THEN "Derived token1 amount exceeds vault balance after scaling"
                      ELSE "Derived token0 amount exceeds vault balance after scaling")
        ELSE
            LET w == IF l.scaled
                     THEN Append(l.warnings,
                                 IF side = 0
                                 THEN "Scaled amount0 to fit token1 balance"
                                 ELSE "Scaled amount1 to fit token0 balance")
                     ELSE l.warnings
            IN Return([WithDerivedAmount(p, l, l.derivedAmount) EXCEPT
                          !.warnings = w, !.derived = TRUE])

\* the catch block around the initial quote
QuoteCatch(p, l) ==
    LET limit == DerivedLimit(p)
        side == InputSide(p)
    IN
    IF limit <= 0
    THEN Throw(l, IF side = 0
                  THEN "Quote failed and token1 balance is zero; provide --amount1 or enable useFullBalances"
                  ELSE "Quote failed and token0 balance is zero; provide --amount0 or enable useFullBalances")
    ELSE Return([WithDerivedAmount(p, l, limit) EXCEPT
                    !.warnings = Append(@,
                        IF side = 0
                        THEN "Quote failed; using full token1 balance"
                        ELSE "Quote failed; using full token0 balance")])

\* the initial quoteExact call resolved with q: the rest of the try block,
\* then the loop
QuoteOkStep(p, l, q) ==
    LET b == applyBpsBuffer(q, p.bufferBps) IN
    IF ~b.ok THEN QuoteCatch(p, l)
    ELSE LoopStep(p, [l EXCEPT
            !.derivedAmount = b.val,
            !.quote = [direction |-> IF InputSide(p) = 0
                                     THEN "token0->token1"
                                     ELSE "token1->token0",
                       amountIn |-> InputAmount(p, l),
                       amountOut |-> q,
                       bufferBps |-> p.bufferBps]])

\* the initial quoteExact call rejected
QuoteFailStep(p, l) == QuoteCatch(p, [l EXCEPT !.quoteFailed = "initial"])

\* a quoteExact call inside the loop resolved with q
RequoteOkStep(p, l, q) ==
    LET b == applyBpsBuffer(q, p.bufferBps) IN
    IF ~b.ok THEN Throw(l, "Invalid quoteBpsBuffer")
    ELSE LoopStep(p, [l EXCEPT !.derivedAmount = b.val, !.scaled = TRUE,
                               !.loopI = @ + 1])

\* a quoteExact call inside the loop rejected: no try block encloses it,
\* the rejection is the outcome of selectAmounts
RequoteFailStep(p, l) ==
    Throw([l EXCEPT !.quoteFailed = "requote"], "quote rejected")

-----------------------------------------------------------------------------
(* Specification of one selectAmounts call *)

Balances == 0..MaxBalance \cup {BigBalance}
AmountInputs == {NoInput} \cup {Input(n) : n \in 0..MaxInput \cup {BigBalance}}
Quotes == 0..MaxQuote
BufferBpsValues == {200, 10000, 10001}
MaxSpendBpsValues == {-1, 0, 5000, 10000, 12000}

\* token1 amounts are drawn in smallest units (token1Decimals = 0)
ParamSpace ==
    [balance0 : Balances, balance1 : Balances,
     amount0Input : AmountInputs, amount1Input : AmountInputs,
     token0Decimals : 0..MaxDecimals, token1Decimals : {0},
     useFullBalances : BOOLEAN, quoterAddress : BOOLEAN,
     bufferBps : BufferBpsValues, maxSpendBps : MaxSpendBpsValues]

TickIdle ==
    /\ tpc = "idle"
    /\ tfn = "none"
    /\ tick = 0
    /\ spacing = 0
    /\ widthTicks = 0
    /\ tres = NoResult

AmountInit ==
    /\ TickIdle
    /\ BoundaryIdle
    /\ CommandIdle
    /\ PlannerIdle
    /\ CooldownIdle
    /\ apc = "init"
    /\ params \in ParamSpace
    /\ AmountLocalsInit

Commit(n) ==
    /\ apc' = n.apc
    /\ amount0' = n.amount0
    /\ amount1' = n.amount1
    /\ derived' = n.derived
    /\ scaled' = n.scaled
    /\ warnings' = n.warnings
    /\ quote' = n.quote
    /\ derivedAmount' = n.derivedAmount
    /\ loopI' = n.loopI
    /\ outcome' = n.outcome
    /\ quoteCalls' = n.quoteCalls
    /\ rescales' = n.rescales
    /\ quoteFailed' = n.quoteFailed
    /\ UNCHANGED params
    /\ UNCHANGED nonAmountVars

SelectAmounts ==
    /\ apc = "init"
    /\ Commit(StartStep(params, Locals))

QuoteResolves ==
    /\ apc = "quote"
    /\ \E q \in Quotes : Commit(QuoteOkStep(params, Locals, q))

QuoteRejects ==
    /\ apc = "quote"
    /\ Commit(QuoteFailStep(params, Locals))

RequoteResolves ==
    /\ apc = "requote"
    /\ \E q \in Quotes : Commit(RequoteOkStep(params, Locals, q))

RequoteRejects ==
    /\ apc = "requote"
    /\ Commit(RequoteFailStep(params, Locals))

AmountNext ==
    \/ SelectAmounts
    \/ QuoteResolves
    \/ QuoteRejects
    \/ RequoteResolves
    \/ RequoteRejects

SpecAmounts == AmountInit /\ [][AmountNext]_vars


-----------------------------------------------------------------------------
(* Properties of selectAmounts *)

\* the spend limit as the specification words it
SpendLimit(balance, maxSpendBps) ==
    IF maxSpendBps >= 10000 THEN balance
    ELSE (balance * maxSpendBps) \div 10000

NoFallbackBalance ==
    {"Quote failed and token1 balance is zero; provide --amount1 or enable useFullBalances",
     "Quote failed and token0 balance is zero; provide --amount0 or enable useFullBalances"}

ScaledToZero ==
    {"Scaled amount0 fell to zero while fitting token1 balance",
     "Scaled amount1 fell to zero while fitting token0 balance"}

StillAboveLimit ==
    {"Derived token1 amount exceeds vault balance after scaling",
     "Derived token0 amount exceeds vault balance after scaling"}

AmountSelectionFailed == ScaledToZero \cup StillAboveLimit

QuoteFailedWarnings ==
    {"Quote failed; using full token1 balance",
     "Quote failed; using full token0 balance"}

DerivedSideAmount == IF InputSide(params) = 0 THEN amount1 ELSE amount0

\* C8: every returned plan has amount0 <= limit0 and amount1 <= limit1,
\* limit_i = floor(balance_i * maxSpendBps / 10000) (balance_i from 10000
\* bps on), so neither amount exceeds the vault balance.
C8_AmountsWithinLimits ==
    outcome = "plan" =>
        /\ amount0 <= params.balance0
        /\ amount1 <= params.balance1
        /\ params.maxSpendBps >= 0 =>
              /\ amount0 <= SpendLimit(params.balance0, params.maxSpendBps)
              /\ amount1 <= SpendLimit(params.balance1, params.maxSpendBps)

\* C8 witness: a clamped input, rescaled once, whose derived side ends
\* exactly at its limit under a 50% spend cap
C8_Witness ==
    /\ outcome = "plan"
    /\ scaled
    /\ derived
    /\ params.maxSpendBps = 5000
    /\ Len(warnings) = 2
    /\ amount1 = limit1Of(params)
    /\ amount1 > 0

\* C9: whenever a quote call of selectAmounts fails (the initial quote or a
\* re-quote), the outcome is NoFallbackBalance if the derived side's limit
\* is zero, and otherwise a plan whose derived-side amount is the full
\* derived-side limit, with a warning; never a derived amount of zero,
\* never another error.
C9_QuoteFailureFallsBack ==
    (apc = "done" /\ quoteFailed # "no") =>
        IF DerivedLimit(params) = 0
        THEN outcome \in NoFallbackBalance
        ELSE /\ outcome = "plan"
             /\ DerivedSideAmount = DerivedLimit(params)
             /\ DerivedSideAmount # 0
             /\ \E k \in 1..Len(warnings) : warnings[k] \in QuoteFailedWarnings

\* C10 as stated: at most 5 rescales and 6 quote invocations, and a call
\* that reached a quote ends with a plan or with AmountSelectionFailed.
C10_PlanOrSelectionFailed ==
    /\ rescales <= 5
    /\ quoteCalls <= 6
    /\ (apc = "done" /\ quoteCalls >= 1) =>
          outcome \in {"plan"} \cup AmountSelectionFailed

\* C10 amended: at most 5 rescales and 6 quote invocations (one initial,
\* one per rescale that kept the input positive); the call never blocks
\* before its end; a call that reached a quote ends with a plan,
\* AmountSelectionFailed, NoFallbackBalance (initial quote failed, derived
\* limit zero) or the rejection of a failed re-quote; "still above the
\* limit" is thrown only after 5 rescales and 6 quotes.
C10_BoundedRescaleLoop ==
    /\ rescales <= 5
    /\ quoteCalls <= 6
    /\ quoteCalls <= rescales + 1
    /\ loopI <= rescales
    /\ apc \in {"init", "quote", "requote"} => ENABLED AmountNext
    /\ (apc = "done" /\ quoteCalls >= 1) =>
          outcome \in {"plan", "quote rejected"} \cup AmountSelectionFailed
                          \cup NoFallbackBalance
    /\ outcome = "quote rejected" => quoteFailed = "requote"
    /\ outcome \in NoFallbackBalance =>
          (quoteCalls = 1 /\ rescales = 0 /\ DerivedLimit(params) = 0)
    /\ outcome \in ScaledToZero => rescales >= 1
    /\ outcome \in StillAboveLimit => (rescales = 5 /\ quoteCalls = 6)

\* C10 witness: five rescales and six quotes, the derived amount still
\* above its limit
C10_Witness ==
    /\ apc = "done"
    /\ rescales = 5
    /\ quoteCalls = 6
    /\ outcome \in StillAboveLimit


-----------------------------------------------------------------------------
(* selectAmounts with the linear quote function of amounts.test.ts *)

\* const mockQuote = async ({ exactAmount }) => exactAmount * 2n
mockQuote(exactAmount) == exactAmount * 2

\* only amount0 supplied, the other side derived through the quoter
LinearParamSpace ==
    {p \in ParamSpace :
        /\ p.amount0Input # NoInput
        /\ p.amount1Input = NoInput
        /\ ~p.useFullBalances
        /\ p.quoterAddress}

LinearInit ==
    /\ TickIdle
    /\ BoundaryIdle
    /\ CommandIdle
    /\ PlannerIdle
    /\ CooldownIdle
    /\ apc = "init"
    /\ params \in LinearParamSpace
    /\ AmountLocalsInit

QuoteResolvesLinear ==
    /\ apc = "quote"
    /\ Commit(QuoteOkStep(params, Locals,
                          mockQuote(InputAmount(params, Locals))))

RequoteResolvesLinear ==
    /\ apc = "requote"
    /\ Commit(RequoteOkStep(params, Locals,
                            mockQuote(InputAmount(params, Locals))))

LinearNext ==
    \/ SelectAmounts
    \/ QuoteResolvesLinear
    \/ RequoteResolvesLinear

SpecLinearQuote == LinearInit /\ [][LinearNext]_vars

\* amount0 as clamped to its limit, before any rescale
ClampedAmount0 ==
    LET a == params.amount0Input.units * Pow10(params.token0Decimals)
        l == SpendLimit(params.balance0,
                        IF params.maxSpendBps < 0 THEN 0 ELSE params.maxSpendBps)
    IN IF a > l THEN l ELSE a

\* the buffered 2x quote of the clamped amount0 is above the token1 limit
BufferedQuoteAboveLimit1 ==
    /\ params.bufferBps >= 0
    /\ params.bufferBps <= 10000
    /\ (2 * ClampedAmount0 * (10000 + params.bufferBps)) \div 10000
          > SpendLimit(params.balance1,
                       IF params.maxSpendBps < 0 THEN 0 ELSE params.maxSpendBps)

\* C11: with a quote of 2x the input, only amount0 supplied and the token1
\* limit below the buffered quote, selectAmounts returns a plan with
\* scaled = true and amount1 <= limit1 after exactly one rescale whenever the
\* rescaled input stays positive; the 5 attempts are never exhausted.
C11_LinearQuoteOneRescale ==
    /\ rescales <= 1
    /\ outcome \notin StillAboveLimit
    /\ (apc = "done" /\ BufferedQuoteAboveLimit1) =>
          /\ rescales = 1
          /\ IF amount0 > 0
             THEN /\ outcome = "plan"
                  /\ scaled
                  /\ derived
                  /\ amount1 <= SpendLimit(params.balance1, params.maxSpendBps)
                  /\ quoteCalls = 2
             ELSE outcome \in ScaledToZero

\* C11 witness: token1 limit 1000, amount0 rescaled once, plan returned
C11_Witness ==
    /\ apc = "done"
    /\ BufferedQuoteAboveLimit1
    /\ outcome = "plan"
    /\ scaled
    /\ rescales = 1
    /\ params.balance1 = BigBalance
    /\ amount1 > 900
    /\ amount1 <= 1000

-----------------------------------------------------------------------------
(* Warnings of selectAmounts *)

\* a supplied amount was above its limit
InputClamped ==
    \/ /\ params.amount0Input # NoInput
       /\ parseUnits(params.amount0Input, params.token0Decimals)
             > limit0Of(params)
    \/ /\ params.amount1Input # NoInput
       /\ parseUnits(params.amount1Input, params.token1Decimals)
             > limit1Of(params)

HasWarning(set) == \E k \in 1..Len(warnings) : warnings[k] \in set

\* C12: in every returned plan scaled = true exactly when a rescale was
\* performed, and a plan that was rescaled, clamped to a limit or produced
\* by the quote-failure fallback carries at least one warning.
C12_ScaledFlagAndWarnings ==
    outcome = "plan" =>
        /\ scaled <=> rescales >= 1
        /\ (scaled \/ InputClamped \/ quoteFailed = "initial") =>
              Len(warnings) >= 1
        /\ scaled =>
              HasWarning({"Scaled amount0 to fit token1 balance",
                          "Scaled amount1 to fit token0 balance"})
        /\ InputClamped =>
              HasWarning({"token0 amount clamped to vault balance",
                          "token1 amount clamped to vault balance"})
        /\ quoteFailed = "initial" => HasWarning(QuoteFailedWarnings)

\* C12 witness: a clamped input whose quote failed, fallback plan with both
\* warnings and no rescale
C12_Witness ==
    /\ outcome = "plan"
    /\ InputClamped
    /\ quoteFailed = "initial"
    /\ ~scaled
    /\ rescales = 0
    /\ Len(warnings) = 2


-----------------------------------------------------------------------------
(* uniswap/position.ts: boundary liquidity math                             *)
(* The source works in X96 fixed point on bigints; the model keeps the      *)
(* formulas and scales the fixed-point base down to 2^QBits.                *)

QBits == 4
MaxSqrt == 24
MaxBoundaryAmount == 18

RECURSIVE Pow2(_)
Pow2(n) == IF n = 0 THEN 1 ELSE 2 * Pow2(n - 1)

\* const Q96 = 1n << 96n
Q96 == Pow2(QBits)

BoundaryError(msg) == [ok |-> FALSE, err |-> msg, val |-> 0]

BoundaryValue(v) == [ok |-> TRUE, err |-> "none", val |-> v]

\* mutant: plain bigint division, rounding down
ceilDiv_floor(num, den) ==
    IF den = 0 THEN BoundaryError("Division by zero")
    ELSE BoundaryValue(BigDiv(num, den))

\* mutant: always one above the floor, also for exact quotients
ceilDiv_plusOne(num, den) ==
    IF den = 0 THEN BoundaryError("Division by zero")
    ELSE BoundaryValue(BigDiv(num, den) + 1)

ceilDiv(num, den) ==
    IF den = 0 THEN BoundaryError("Division by zero")
    ELSE BoundaryValue(BigDiv(num + den - 1, den))

\* sqrtLower, sqrtUpper: the SDK's getSqrtRatioAtTick of tickLower, tickUpper
getBoundarySqrtRatios(sqrtLower, sqrtUpper) ==
    IF sqrtUpper <= sqrtLower
    THEN [ok |-> FALSE, err |-> "Invalid sqrt ratio ordering for ticks",
          diff |-> 0]
    ELSE [ok |-> TRUE, err |-> "none", diff |-> sqrtUpper - sqrtLower]

computeBoundaryLiquidity(sqrtLower, sqrtUpper, amt0, amt1, mode) ==
    IF mode = "IN_RANGE"
    THEN BoundaryError(
           "Boundary liquidity computation requires ABOVE_MAX or BELOW_MIN")
    ELSE LET r == getBoundarySqrtRatios(sqrtLower, sqrtUpper) IN
         IF ~r.ok THEN BoundaryError(r.err)
         ELSE IF mode = "ABOVE_MAX"
         THEN IF amt1 <= 0
              THEN BoundaryError("Boundary ABOVE_MAX requires amount1 > 0")
              ELSE BoundaryValue(BigDiv(amt1 * Q96, r.diff))
         ELSE IF amt0 <= 0
              THEN BoundaryError("Boundary BELOW_MIN requires amount0 > 0")
              ELSE BoundaryValue(BigDiv(amt0 * sqrtLower * sqrtUpper,
                                        Q96 * r.diff))

computeBoundaryMinAmountForLiquidityOne(sqrtLower, sqrtUpper, mode) ==
    IF mode = "IN_RANGE"
    THEN BoundaryError("Boundary min amount requires ABOVE_MAX or BELOW_MIN")
    ELSE LET r == getBoundarySqrtRatios(sqrtLower, sqrtUpper) IN
         IF ~r.ok THEN BoundaryError(r.err)
         ELSE IF mode = "ABOVE_MAX"
         THEN ceilDiv(r.diff, Q96)
         ELSE ceilDiv(Q96 * r.diff, sqrtLower * sqrtUpper)

BootstrapModes == {"IN_RANGE", "ABOVE_MAX", "BELOW_MIN"}

BoundaryInit ==
    /\ TickIdle
    /\ AmountIdle
    /\ CommandIdle
    /\ PlannerIdle
    /\ CooldownIdle
    /\ bpc = "start"
    /\ bfn = "none"
    /\ bmode \in BootstrapModes
    /\ sqrtLowerX96 \in 1..MaxSqrt
    /\ sqrtUpperX96 \in 1..MaxSqrt
    /\ \E a \in -1..MaxBoundaryAmount, o \in {0, 1} :
          \/ bamount0 = a /\ bamount1 = o
          \/ bamount0 = o /\ bamount1 = a
    /\ bmin = NoBoundaryResult
    /\ bliq = NoBoundaryResult

BoundaryApply(fn, min, liq) ==
    /\ bpc = "start"
    /\ bpc' = "done"
    /\ bfn' = fn
    /\ bmin' = min
    /\ bliq' = liq
    /\ UNCHANGED <<bmode, bamount0, bamount1, sqrtLowerX96, sqrtUpperX96>>
    /\ UNCHANGED nonBoundaryVars

CallComputeBoundaryLiquidity ==
    BoundaryApply("computeBoundaryLiquidity", NoBoundaryResult,
        computeBoundaryLiquidity(sqrtLowerX96, sqrtUpperX96,
                                 bamount0, bamount1, bmode))

CallComputeBoundaryMinAmount ==
    BoundaryApply("computeBoundaryMinAmountForLiquidityOne",
        computeBoundaryMinAmountForLiquidityOne(sqrtLowerX96, sqrtUpperX96,
                                                bmode),
        NoBoundaryResult)

\* the minimum amount is computed and, when that succeeded, passed on as
\* the amount of the mode's token (ticks.test.ts)
CallMinThenLiquidity ==
    LET min == computeBoundaryMinAmountForLiquidityOne(
                   sqrtLowerX96, sqrtUpperX96, bmode)
    IN BoundaryApply("minThenLiquidity", min,
         IF ~min.ok THEN NoBoundaryResult
         ELSE computeBoundaryLiquidity(sqrtLowerX96, sqrtUpperX96,
                  IF bmode = "BELOW_MIN" THEN min.val ELSE bamount0,
                  IF bmode = "ABOVE_MAX" THEN min.val ELSE bamount1,
                  bmode))

BoundaryNext ==
    \/ CallComputeBoundaryLiquidity
    \/ CallComputeBoundaryMinAmount
    \/ CallMinThenLiquidity

SpecBoundary == BoundaryInit /\ [][BoundaryNext]_vars

ValidBoundaryRange == sqrtUpperX96 > sqrtLowerX96

\* the amount of the token the mode deposits
BoundaryAmount == IF bmode = "ABOVE_MAX" THEN bamount1 ELSE bamount0

\* C15: for every valid boundary range and both boundary modes, the liquidity
\* computed from exactly the amount returned by
\* computeBoundaryMinAmountForLiquidityOne is at least 1.
C15_MinAmountMintsLiquidity ==
    (/\ bpc = "done"
     /\ bfn = "minThenLiquidity"
     /\ bmode # "IN_RANGE"
     /\ ValidBoundaryRange) =>
        /\ bmin.ok
        /\ bmin.val >= 1
        /\ bliq.ok
        /\ bliq.val >= 1

\* C15 witness: a BELOW_MIN range whose minimum amount is above 1
C15_Witness ==
    /\ bpc = "done"
    /\ bfn = "minThenLiquidity"
    /\ bmode = "BELOW_MIN"
    /\ ValidBoundaryRange
    /\ bmin.ok
    /\ bmin.val > 1
    /\ bliq.ok
    /\ bliq.val >= 1

\* C16: the returned minimum is the smallest deposit with liquidity >= 1:
\* in both boundary modes every positive amount strictly below it computes
\* to liquidity 0 (and every amount from it on to liquidity >= 1).
C16_BelowMinAmountNoLiquidity ==
    (/\ bpc = "done"
     /\ bfn = "computeBoundaryLiquidity"
     /\ bmode # "IN_RANGE"
     /\ ValidBoundaryRange
     /\ BoundaryAmount > 0) =>
        LET min == computeBoundaryMinAmountForLiquidityOne(
                       sqrtLowerX96, sqrtUpperX96, bmode)
        IN /\ min.ok
           /\ bliq.ok
           /\ BoundaryAmount < min.val => bliq.val = 0
           /\ BoundaryAmount >= min.val => bliq.val >= 1

\* C16 witness: an ABOVE_MAX amount one below the minimum, liquidity 0
C16_Witness ==
    /\ bpc = "done"
    /\ bfn = "computeBoundaryLiquidity"
    /\ bmode = "ABOVE_MAX"
    /\ ValidBoundaryRange
    /\ bamount1 > 0
    /\ bamount1 + 1 = computeBoundaryMinAmountForLiquidityOne(
                          sqrtLowerX96, sqrtUpperX96, bmode).val
    /\ bliq.ok
    /\ bliq.val = 0


-----------------------------------------------------------------------------
(* commands/bootstrap.ts and commands/rebalance.ts, from the pool state     *)
(* read to the assembly of the unlock payload                               *)

MaxSdkValue == 1

NEAR_BOUNDARY_TICK == 885000

isTickNearBounds(t) == Abs(t) >= NEAR_BOUNDARY_TICK

\* the defaults of selectAmounts' parameters
DefaultBufferBps == 200
DefaultMaxSpendBps == 10000

\* options.x ? Number(options.x) : fallback
OptionOr(opt, fallback) == IF opt.given THEN opt.units ELSE fallback

CommandError(msg) == [NoCommandResult EXCEPT !.outcome = msg]

\* the widthTicks checks of bootstrapCommand: message of the first that
\* throws, or "ok"
bootstrapWidthGuard(w, s) ==
    IF w <= 0 THEN "widthTicks must be a positive integer"
    ELSE IF RemNonZero(w, s) \/ RemNonZero(w, 2 * s)
    THEN "widthTicks/2 must align to tick spacing"
    ELSE "ok"

\* the widthTicks checks of rebalanceCommand
rebalanceWidthGuard(w, s) ==
    IF w <= 0 THEN "widthTicks must be a positive integer"
    ELSE IF RemNonZero(w, 2 * s)
    THEN "widthTicks/2 must align to tick spacing"
    ELSE "ok"

\* bootstrapWarnings as pushed before selectAmounts is called
BootstrapRangeWarnings(t, r) ==
    (IF t >= r.maxAligned \/ t <= r.minAligned
     THEN <<"Pool tick is at extreme bound">> ELSE <<>>)
    \o (IF isTickNearBounds(t)
        THEN <<"Pool tick is near global bounds">> ELSE <<>>)
    \o (IF r.mode # "IN_RANGE"
        THEN <<"Boundary tick mode active; mint will be one-sided">>
        ELSE IF t < r.lower \/ t >= r.upper
        THEN <<"Computed bootstrap range does not include current tick">>
        ELSE <<>>)

\* the parameters the commands hand to selectAmounts
SelectParams(cmd, o) ==
    [balance0 |-> o.balance0, balance1 |-> o.balance1,
     amount0Input |-> o.amount0, amount1Input |-> o.amount1,
     token0Decimals |-> 0, token1Decimals |-> 0,
     useFullBalances |->
        IF cmd = "rebalance"
        THEN o.useFullBalances
             \/ (~o.useFullBalances /\ ~o.amount0.given /\ ~o.amount1.given)
        ELSE o.useFullBalances,
     quoterAddress |-> o.quoterAddress,
     bufferBps |-> DefaultBufferBps,
     maxSpendBps |-> OptionOr(o.maxSpendBps, DefaultMaxSpendBps)]

\* bootstrapCommand up to the call of selectAmounts; cooldown: whether
\* assertCooldown throws
BootstrapStart(o, cooldown) ==
    IF isTickNearBounds(o.tickCurrent)
    THEN KeeperError("Pool tick is near global bounds")
    ELSE IF bootstrapWidthGuard(o.widthTicks, o.tickSpacing) # "ok"
    THEN KeeperError(bootstrapWidthGuard(o.widthTicks, o.tickSpacing))
    ELSE LET r == computeBootstrapTicks(o.tickCurrent, o.tickSpacing,
                                        o.widthTicks)
         IN IF ~r.ok THEN r
            ELSE IF cooldown THEN KeeperError("Cooldown active for bootstrap")
            ELSE r

\* rebalanceCommand up to the call of selectAmounts; gate: "go", "skip"
\* (trigger conditions not met, or cooling down without --force: a skip
\* report and no payload)
RebalanceStart(o, gate) ==
    IF rebalanceWidthGuard(o.widthTicks, o.tickSpacing) # "ok"
    THEN KeeperError(rebalanceWidthGuard(o.widthTicks, o.tickSpacing))
    ELSE IF isTickNearBounds(o.tickCurrent)
    THEN KeeperError("Pool tick is near global bounds")
    ELSE IF gate = "skip" THEN KeeperError("skip")
    ELSE centerRange(o.tickCurrent, o.widthTicks, o.tickSpacing)

\* the command has thrown or returned before selectAmounts
EndBeforeSelection(r) ==
    /\ cpc' = "done"
    /\ crange' = r
    /\ cres' = CommandError(r.err)
    /\ UNCHANGED <<command, opts, bootstrapWarnings>>
    /\ UNCHANGED <<tickVars, amountVars, boundaryVars, plannerVars,
                   cooldownVars>>

\* the command awaits selectAmounts
CallSelectAmounts(r, w) ==
    /\ cpc' = "select"
    /\ crange' = r
    /\ bootstrapWarnings' = w
    /\ apc' = "init"
    /\ params' = SelectParams(command, opts)
    /\ UNCHANGED <<command, opts, cres>>
    /\ UNCHANGED <<amount0, amount1, derived, scaled, warnings, quote,
                   derivedAmount, loopI, outcome, quoteCalls, rescales,
                   quoteFailed>>
    /\ UNCHANGED <<tickVars, boundaryVars, plannerVars, cooldownVars>>

BootstrapBegin ==
    /\ cpc = "start"
    /\ command = "bootstrap"
    /\ \E cooldown \in BOOLEAN :
          LET r == BootstrapStart(opts, cooldown) IN
          IF r.ok
          THEN CallSelectAmounts(r, BootstrapRangeWarnings(opts.tickCurrent, r))
          ELSE EndBeforeSelection(r)

RebalanceBegin ==
    /\ cpc = "start"
    /\ command = "rebalance"
    /\ \E gate \in {"go", "skip"} :
          LET r == RebalanceStart(opts, gate) IN
          IF r.ok
          THEN CallSelectAmounts(r, <<>>)
          ELSE EndBeforeSelection(r)


\* a step of a command after selectAmounts: the error thrown ("ok" when
\* none) and the locals as they stand
MintStep(err, a0, a1, liq, min, w) ==
    [err |-> err, amount0 |-> a0, amount1 |-> a1, liquidity |-> liq,
     boundaryMinAmount |-> min, warnings |-> w]

\* const limit0 / limit1 of bootstrapCommand
bootstrapLimit(balance, maxSpendBps) == BigDiv(balance * maxSpendBps, 10000)

\* mutant: the one-sided branches keep the other token's amount
zeroOtherSide_keep(amount) == amount

\* if (amount > 0n) amount = 0n
zeroOtherSide(amount) == IF amount > 0 THEN 0 ELSE amount

\* mutant: the range is never found to include the tick
rangeIncludesTick_never(lower, upper, t) == FALSE

\* lower <= tickCurrent && tickCurrent < upper
rangeIncludesTick(lower, upper, t) == lower <= t /\ t < upper

\* the checks of bootstrapCommand on the selected amounts, by mode
bootstrapAmountChecks(r, t, a0, a1, w) ==
    IF r.mode = "ABOVE_MAX"
    THEN IF a1 <= 0
         THEN MintStep("Pool tick beyond max aligned tick; token1-only mint requires amount1 > 0",
                       a0, a1, 0, 0, w)
         ELSE MintStep("ok", zeroOtherSide(a0), a1, 0, 0, w)
    ELSE IF r.mode = "BELOW_MIN"
    THEN IF a0 <= 0
         THEN MintStep("Pool tick below min aligned tick; token0-only mint requires amount0 > 0",
                       a0, a1, 0, 0, w)
         ELSE MintStep("ok", a0, zeroOtherSide(a1), 0, 0, w)
    ELSE IF rangeIncludesTick(r.lower, r.upper, t) /\ (a0 <= 0 \/ a1 <= 0)
    THEN MintStep("Range includes current tick; both token balances must be > 0",
                  a0, a1, 0, 0, w)
    ELSE MintStep("ok", a0, a1, 0, 0, w)

\* buildPositionFromAmounts(...).liquidity; sdkLiquidity: the liquidity of
\* the Position the SDK builds from the amounts
buildPositionFromAmounts(a0, a1, sdkLiquidity) ==
    IF a0 > 0 \/ a1 > 0
    THEN BoundaryValue(sdkLiquidity)
    ELSE BoundaryError("Both amount0 and amount1 are zero")

\* the boundary branch of bootstrapCommand: minimum amount, bump, liquidity
bootstrapBoundaryMint(mode, sqrtLower, sqrtUpper, a0, a1, limit0, limit1, w) ==
    LET ratios == getBoundarySqrtRatios(sqrtLower, sqrtUpper)
        min == computeBoundaryMinAmountForLiquidityOne(sqrtLower, sqrtUpper,
                                                       mode)
    IN
    IF ~ratios.ok THEN MintStep(ratios.err, a0, a1, 0, 0, w)
    ELSE IF ~min.ok THEN MintStep(min.err, a0, a1, 0, 0, w)
    ELSE
    LET bumped ==
          IF mode = "ABOVE_MAX" /\ a1 < min.val
          THEN IF limit1 >= min.val
               THEN MintStep("ok", a0, min.val, 0, min.val,
                      Append(w, "amount1 bumped to minimum required for boundary mint"))
               ELSE MintStep("amount1 too low for boundary mint; deposit more token1",
                             a0, a1, 0, min.val, w)
          ELSE IF mode = "BELOW_MIN" /\ a0 < min.val
          THEN IF limit0 >= min.val
               THEN MintStep("ok", min.val, a1, 0, min.val,
                      Append(w, "amount0 bumped to minimum required for boundary mint"))
               ELSE MintStep("amount0 too low for boundary mint; deposit more token0",
                             a0, a1, 0, min.val, w)
          ELSE MintStep("ok", a0, a1, 0, min.val, w)
        liq == computeBoundaryLiquidity(sqrtLower, sqrtUpper, bumped.amount0,
                                        bumped.amount1, mode)
    IN
    IF bumped.err # "ok" THEN bumped
    ELSE IF ~liq.ok THEN [bumped EXCEPT !.err = liq.err]
    ELSE [bumped EXCEPT !.liquidity = liq.val]


\* how a command ends after the liquidity block was entered
MintResult(m, limit0, limit1, a0Max, a1Max) ==
    [outcome |-> IF m.err # "ok" THEN m.err ELSE "payload",
     amount0 |-> m.amount0, amount1 |-> m.amount1,
     liquidity |-> m.liquidity,
     amount0Max |-> a0Max, amount1Max |-> a1Max,
     boundaryMinAmount |-> m.boundaryMinAmount,
     limit0 |-> limit0, limit1 |-> limit1, reachedLiquidity |-> TRUE]

\* bootstrapCommand from the return of selectAmounts (sel0, sel1) to
\* buildBootstrapUnlockData: <<result, bootstrapWarnings>>
BootstrapFinish(o, r, w, sel0, sel1, sdkLiquidity, sqrtLower, sqrtUpper) ==
    LET maxSpendBps == OptionOr(o.maxSpendBps, DefaultMaxSpendBps)
        limit0 == bootstrapLimit(o.balance0, maxSpendBps)
        limit1 == bootstrapLimit(o.balance1, maxSpendBps)
        chk == bootstrapAmountChecks(r, o.tickCurrent, sel0, sel1, w)
        pos == buildPositionFromAmounts(chk.amount0, chk.amount1,
                                        sdkLiquidity)
        mint == IF r.mode = "IN_RANGE"
                THEN MintStep(IF pos.ok THEN "ok" ELSE pos.err,
                              chk.amount0, chk.amount1, pos.val, 0, w)
                ELSE bootstrapBoundaryMint(r.mode, sqrtLower, sqrtUpper,
                         chk.amount0, chk.amount1, limit0, limit1, w)
        checked == IF mint.err = "ok" /\ mint.liquidity <= 0
                   THEN [mint EXCEPT !.err =
                     "Computed liquidity is zero; adjust amounts or tick range"]
                   ELSE mint
    IN
    IF chk.err # "ok"
    THEN <<[CommandError(chk.err) EXCEPT !.amount0 = sel0, !.amount1 = sel1,
               !.limit0 = limit0, !.limit1 = limit1], w>>
    ELSE <<MintResult(checked, limit0, limit1,
                      checked.amount0, checked.amount1), checked.warnings>>

\* rebalanceCommand from the return of selectAmounts to
\* buildRebalanceUnlockData; mint0, mint1: the SDK's mintAmountsWithSlippage
RebalanceFinish(o, r, sel0, sel1, sdkLiquidity, mint0, mint1) ==
    LET pos == buildPositionFromAmounts(sel0, sel1, sdkLiquidity) IN
    IF rangeIncludesTick(r.lower, r.upper, o.tickCurrent)
       /\ (sel0 <= 0 \/ sel1 <= 0)
    THEN [CommandError("Rebalance range includes current tick; both token balances must be > 0")
            EXCEPT !.amount0 = sel0, !.amount1 = sel1]
    ELSE MintResult(MintStep(IF pos.ok THEN "ok" ELSE pos.err,
                             sel0, sel1, pos.val, 0, <<>>),
                    0, 0, mint0, mint1)

CommandTicks == {-870001, -870000, 0, 599, 870000, 870001, 885000}

\* the SDK's getSqrtRatioAtTick of the range's ticks, in units of 2^-QBits
CommandSqrtRatios == {2, 3, 20, 60}

CommandOptions ==
    [tickCurrent : CommandTicks, tickSpacing : {60, 30000},
     widthTicks : {90, 1200, 60000},
     amount0 : {NoInput, Input(2)}, amount1 : {NoInput, Input(2)},
     maxSpendBps : {NoInput, Input(5000), Input(20000)},
     useFullBalances : BOOLEAN, quoterAddress : BOOLEAN,
     balance0 : {0, 2}, balance1 : {0, 2}]

CommandInit ==
    /\ TickIdle
    /\ AmountIdle
    /\ BoundaryIdle
    /\ PlannerIdle
    /\ CooldownIdle
    /\ cpc = "start"
    /\ command \in {"bootstrap", "rebalance"}
    /\ opts \in CommandOptions
    /\ crange = NoResult
    /\ bootstrapWarnings = <<>>
    /\ cres = NoCommandResult

EndCommand(res, w) ==
    /\ cpc' = "done"
    /\ cres' = res
    /\ bootstrapWarnings' = w
    /\ UNCHANGED <<command, opts, crange>>
    /\ UNCHANGED <<tickVars, amountVars, boundaryVars, plannerVars,
                   cooldownVars>>

\* selectAmounts threw: the command ends with that error
SelectionFails ==
    /\ cpc = "select"
    /\ apc = "done"
    /\ outcome # "plan"
    /\ EndCommand(CommandError(outcome), bootstrapWarnings)

BootstrapMint ==
    /\ cpc = "select"
    /\ command = "bootstrap"
    /\ apc = "done"
    /\ outcome = "plan"
    /\ \E sdkLiquidity \in 0..MaxSdkValue,
          sqrtLower \in CommandSqrtRatios, sqrtUpper \in CommandSqrtRatios :
          LET f == BootstrapFinish(opts, crange, bootstrapWarnings, amount0,
                                   amount1, sdkLiquidity, sqrtLower, sqrtUpper)
          IN EndCommand(f[1], f[2])

RebalanceMint ==
    /\ cpc = "select"
    /\ command = "rebalance"
    /\ apc = "done"
    /\ outcome = "plan"
    /\ \E sdkLiquidity \in 0..MaxSdkValue,
          mint0 \in 0..MaxSdkValue, mint1 \in 0..MaxSdkValue :
          EndCommand(RebalanceFinish(opts, crange, amount0, amount1,
                                     sdkLiquidity, mint0, mint1),
                     bootstrapWarnings)

CommandNext ==
    \/ BootstrapBegin
    \/ RebalanceBegin
    \/ SelectAmounts
    \/ QuoteResolves
    \/ QuoteRejects
    \/ RequoteResolves
    \/ RequoteRejects
    \/ SelectionFails
    \/ BootstrapMint
    \/ RebalanceMint

SpecCommands == CommandInit /\ [][CommandNext]_vars


-----------------------------------------------------------------------------
(* Properties of the commands *)

\* the computed range includes the current tick
TickInsideRange ==
    /\ crange.ok
    /\ crange.lower <= opts.tickCurrent
    /\ opts.tickCurrent < crange.upper

RangeErrors ==
    {"Range includes current tick; both token balances must be > 0",
     "Rebalance range includes current tick; both token balances must be > 0"}

\* selectAmounts has returned a plan to the command
SelectionReturned == cpc = "done" /\ apc = "done" /\ outcome = "plan"

\* C13: when bootstrapCommand (mode IN_RANGE) or rebalanceCommand reaches
\* the liquidity computation with a range that includes the current tick,
\* amount0 > 0 and amount1 > 0; a selection with a zero amount ends in the
\* range error before liquidity is computed or a payload assembled.
C13_InRangeNeedsBothAmounts ==
    (/\ cpc = "done"
     /\ TickInsideRange
     /\ command = "bootstrap" => crange.mode = "IN_RANGE") =>
        /\ cres.reachedLiquidity => (cres.amount0 > 0 /\ cres.amount1 > 0)
        /\ (SelectionReturned /\ (amount0 <= 0 \/ amount1 <= 0)) =>
              /\ ~cres.reachedLiquidity
              /\ cres.outcome \in RangeErrors

\* C13 witness: a rebalance whose selection has amount1 = 0 for a range
\* around the tick ends in the range error
C13_Witness ==
    /\ cpc = "done"
    /\ command = "rebalance"
    /\ TickInsideRange
    /\ SelectionReturned
    /\ amount0 > 0
    /\ amount1 = 0
    /\ ~cres.reachedLiquidity
    /\ cres.outcome \in RangeErrors

\* C14: a bootstrap payload assembled in mode ABOVE_MAX has amount0Max = 0
\* and amount1Max > 0, one assembled in mode BELOW_MIN has amount1Max = 0 and
\* amount0Max > 0, whatever selectAmounts returned; a non-positive amount of
\* the required token ends in an error.
C14_BoundaryPayloadOneSided ==
    (cpc = "done" /\ command = "bootstrap" /\ crange.ok) =>
        /\ (cres.outcome = "payload" /\ crange.mode = "ABOVE_MAX") =>
              (cres.amount0Max = 0 /\ cres.amount1Max > 0)
        /\ (cres.outcome = "payload" /\ crange.mode = "BELOW_MIN") =>
              (cres.amount1Max = 0 /\ cres.amount0Max > 0)
        /\ (SelectionReturned /\ crange.mode = "ABOVE_MAX" /\ amount1 <= 0) =>
              cres.outcome = "Pool tick beyond max aligned tick; token1-only mint requires amount1 > 0"
        /\ (SelectionReturned /\ crange.mode = "BELOW_MIN" /\ amount0 <= 0) =>
              cres.outcome = "Pool tick below min aligned tick; token0-only mint requires amount0 > 0"

\* C14 witness: selectAmounts returned both amounts positive, the ABOVE_MAX
\* payload carries token1 only
C14_Witness ==
    /\ cpc = "done"
    /\ command = "bootstrap"
    /\ crange.mode = "ABOVE_MAX"
    /\ SelectionReturned
    /\ amount0 > 0
    /\ amount1 > 0
    /\ cres.outcome = "payload"
    /\ cres.amount0Max = 0
    /\ cres.amount1Max > 0

Bumped(label) ==
    \E k \in 1..Len(bootstrapWarnings) : bootstrapWarnings[k] = label

\* C17: in a boundary-mode bootstrap an amount below the boundary minimum is
\* raised to exactly that minimum, with a warning, and the bumped amount
\* never exceeds the vault's balance of that token, for any maxSpendBps.
C17_BumpWithinBalance ==
    (cpc = "done" /\ command = "bootstrap") =>
        /\ Bumped("amount1 bumped to minimum required for boundary mint") =>
              /\ cres.amount1 = cres.boundaryMinAmount
              /\ cres.amount1 <= opts.balance1
        /\ Bumped("amount0 bumped to minimum required for boundary mint") =>
              /\ cres.amount0 = cres.boundaryMinAmount
              /\ cres.amount0 <= opts.balance0

\* C18: no mint payload is assembled with liquidity 0, in bootstrapCommand
\* and in rebalanceCommand.
C18_NoZeroLiquidityPayload ==
    cres.outcome = "payload" => cres.liquidity > 0


-----------------------------------------------------------------------------
(* uniswap/planner.ts: the hand-encoded unlock payloads                     *)
(* Hex values are sequences of bytes. The ABI layout of viem's              *)
(* encodeAbiParameters is kept (head words, offsets, length-prefixed and    *)
(* right-padded bytes); the word is WordBytes bytes wide instead of 32, and *)
(* uint128 is half a word.                                                  *)

WordBytes == 3

\* const MAX_UINT128 = (1n << 128n) - 1n
MAX_UINT128 == Pow2(4 * WordBytes) - 1

\* const ACTIONS (the name is a reserved word of TLA+)
ActionCodes ==
    [DECREASE_LIQUIDITY |-> 1, MINT_POSITION |-> 2, BURN_POSITION |-> 3,
     TAKE_PAIR |-> 17, CLOSE_CURRENCY |-> 18]

RECURSIVE Flatten(_)
Flatten(seqs) ==
    IF seqs = <<>> THEN <<>> ELSE Head(seqs) \o Flatten(Tail(seqs))

\* value.toString(16).padStart(2, "0"): the hex digits of the value
RECURSIVE HexDigits(_)
HexDigits(v) ==
    IF v < 16 THEN <<v>> ELSE Append(HexDigits(v \div 16), v % 16)

toHexPadded(v) == IF v < 16 THEN <<0, v>> ELSE HexDigits(v)

\* the bytes of a hex string: two digits each
hexToBytes(digits) ==
    [i \in 1..(Len(digits) \div 2) |-> digits[2 * i - 1] * 16 + digits[2 * i]]

\* `0x${[...].map((value) => value.toString(16).padStart(2, "0")).join("")}`
actionsHex(list) ==
    hexToBytes(Flatten([i \in 1..Len(list) |-> toHexPadded(list[i])]))

\* the n low bytes of v >= 0, big-endian
RECURSIVE BigEndian(_, _)
BigEndian(v, n) ==
    IF n = 0 THEN <<>> ELSE Append(BigEndian(v \div 256, n - 1), v % 256)

\* uintN / address: one word
encodeUint(v) == BigEndian(v, WordBytes)

\* intN: one word, two's complement
encodeInt(v) ==
    IF v >= 0 THEN encodeUint(v)
    ELSE LET m == BigEndian(-v - 1, WordBytes)
         IN [i \in 1..WordBytes |-> 255 - m[i]]

Zeros(n) == [i \in 1..n |-> 0]

padRight(b) == b \o Zeros((WordBytes - (Len(b) % WordBytes)) % WordBytes)

\* bytes: length word and the data, right-padded
encodeBytes(b) == encodeUint(Len(b)) \o padRight(b)

\* offsets of the elements of a bytes[]: each element's start, counted
\* from the end of the length word
RECURSIVE elementOffsets(_, _)
elementOffsets(encoded, start) ==
    IF encoded = <<>> THEN <<>>
    ELSE <<start>> \o elementOffsets(Tail(encoded), start + Len(Head(encoded)))

\* bytes[]: length word, one offset word per element, the elements
encodeBytesArray(list) ==
    LET encoded == [i \in 1..Len(list) |-> encodeBytes(list[i])]
        offs == elementOffsets(encoded, Len(list) * WordBytes)
    IN encodeUint(Len(list))
       \o Flatten([i \in 1..Len(list) |-> encodeUint(offs[i])])
       \o Flatten(encoded)

\* encodeAbiParameters([actions: bytes, params: bytes[]], [actions, params])
encodeUnlockData(actions, blocks) ==
    encodeUint(2 * WordBytes)
    \o encodeUint(2 * WordBytes + Len(encodeBytes(actions)))
    \o encodeBytes(actions)
    \o encodeBytesArray(blocks)

\* mutant: an omitted hookData becomes one zero byte
hookDataOr_zeroByte(h) == IF h.given THEN h.bytes ELSE <<0>>

\* params.hookData ?? "0x"
hookDataOr(h) == IF h.given THEN h.bytes ELSE <<>>

UnlockError(msg) == [ok |-> FALSE, err |-> msg, data |-> <<>>]

UnlockData(bytes) == [ok |-> TRUE, err |-> "none", data |-> bytes]

burnParams(p) ==
    encodeUint(p.tokenId) \o encodeUint(p.amount0Min)
    \o encodeUint(p.amount1Min) \o encodeUint(4 * WordBytes)
    \o encodeBytes(hookDataOr(p.hookData))

takeParams(p) ==
    encodeUint(p.currency0) \o encodeUint(p.currency1)
    \o encodeUint(p.recipient)

buildBurnPositionUnlockData(p) ==
    IF p.amount0Min < 0 \/ p.amount1Min < 0
    THEN UnlockError("amount0Min/amount1Min must be non-negative")
    ELSE IF p.amount0Min > MAX_UINT128 \/ p.amount1Min > MAX_UINT128
    THEN UnlockError("amount0Min/amount1Min exceeds uint128")
    ELSE UnlockData(encodeUnlockData(
             actionsHex(<<ActionCodes.BURN_POSITION, ActionCodes.TAKE_PAIR>>),
             <<burnParams(p), takeParams(p)>>))

decreaseParams(p) ==
    encodeUint(p.oldTokenId) \o encodeUint(p.oldLiquidity)
    \o encodeUint(p.amount0Min) \o encodeUint(p.amount1Min)
    \o encodeUint(5 * WordBytes)
    \o encodeBytes(hookDataOr(p.hookData))

mintParams(p) ==
    encodeUint(p.currency0) \o encodeUint(p.currency1)
    \o encodeUint(p.fee) \o encodeInt(p.tickSpacing) \o encodeUint(p.hooks)
    \o encodeInt(p.newTickLower) \o encodeInt(p.newTickUpper)
    \o encodeUint(p.newLiquidity)
    \o encodeUint(p.amount0Max) \o encodeUint(p.amount1Max)
    \o encodeUint(p.owner) \o encodeUint(12 * WordBytes)
    \o encodeBytes(hookDataOr(p.hookData))

close0Params(p) == encodeUint(p.currency0)

close1Params(p) == encodeUint(p.currency1)

\* mutant: the two CloseCurrency blocks change places
rebalanceBlocks_swapped(p) ==
    <<decreaseParams(p), mintParams(p), close1Params(p), close0Params(p)>>

\* [decreaseParams, mintParams, close0Params, close1Params]
rebalanceBlocks(p) ==
    <<decreaseParams(p), mintParams(p), close0Params(p), close1Params(p)>>

buildRebalanceUnlockData(p) ==
    IF p.amount0Min > MAX_UINT128 \/ p.amount1Min > MAX_UINT128
    THEN UnlockError("amount0Min/amount1Min exceeds uint128")
    ELSE IF p.amount0Max > MAX_UINT128 \/ p.amount1Max > MAX_UINT128
    THEN UnlockError("amount0Max/amount1Max exceeds uint128")
    ELSE UnlockData(encodeUnlockData(
             actionsHex(<<ActionCodes.DECREASE_LIQUIDITY,
                          ActionCodes.MINT_POSITION,
                          ActionCodes.CLOSE_CURRENCY,
                          ActionCodes.CLOSE_CURRENCY>>),
             rebalanceBlocks(p)))

(* viem decodeAbiParameters, as plannerBurn.test.ts applies it *)

readWord(data, pos) == SubSeq(data, pos + 1, pos + WordBytes)

RECURSIVE FromBigEndian(_)
FromBigEndian(b) ==
    IF b = <<>> THEN 0
    ELSE FromBigEndian(SubSeq(b, 1, Len(b) - 1)) * 256 + b[Len(b)]

decodeUint(data, pos) == FromBigEndian(readWord(data, pos))

decodeInt(data, pos) ==
    LET w == readWord(data, pos) IN
    IF w[1] >= 128
    THEN -FromBigEndian([i \in 1..WordBytes |-> 255 - w[i]]) - 1
    ELSE FromBigEndian(w)

decodeBytes(data, pos) ==
    SubSeq(data, pos + WordBytes + 1,
           pos + WordBytes + decodeUint(data, pos))

decodeBytesArray(data, pos) ==
    [i \in 1..decodeUint(data, pos) |->
        decodeBytes(data, pos + WordBytes
                          + decodeUint(data, pos + i * WordBytes))]

\* decodeAbiParameters([actions: bytes, params: bytes[]], unlockData)
decodeUnlockData(data) ==
    [actions |-> decodeBytes(data, decodeUint(data, 0)),
     params |-> decodeBytesArray(data, decodeUint(data, WordBytes))]

decodeBurnParams(b) ==
    [tokenId |-> decodeUint(b, 0),
     amount0Min |-> decodeUint(b, WordBytes),
     amount1Min |-> decodeUint(b, 2 * WordBytes),
     hookData |-> decodeBytes(b, decodeUint(b, 3 * WordBytes))]

decodeTakeParams(b) ==
    [currency0 |-> decodeUint(b, 0),
     currency1 |-> decodeUint(b, WordBytes),
     recipient |-> decodeUint(b, 2 * WordBytes)]


decodeDecreaseParams(b) ==
    [tokenId |-> decodeUint(b, 0),
     liquidity |-> decodeUint(b, WordBytes),
     amount0Min |-> decodeUint(b, 2 * WordBytes),
     amount1Min |-> decodeUint(b, 3 * WordBytes),
     hookData |-> decodeBytes(b, decodeUint(b, 4 * WordBytes))]

decodeMintParams(b) ==
    [currency0 |-> decodeUint(b, 0),
     currency1 |-> decodeUint(b, WordBytes),
     fee |-> decodeUint(b, 2 * WordBytes),
     tickSpacing |-> decodeInt(b, 3 * WordBytes),
     hooks |-> decodeUint(b, 4 * WordBytes),
     tickLower |-> decodeInt(b, 5 * WordBytes),
     tickUpper |-> decodeInt(b, 6 * WordBytes),
     liquidity |-> decodeUint(b, 7 * WordBytes),
     amount0Max |-> decodeUint(b, 8 * WordBytes),
     amount1Max |-> decodeUint(b, 9 * WordBytes),
     owner |-> decodeUint(b, 10 * WordBytes),
     hookData |-> decodeBytes(b, decodeUint(b, 11 * WordBytes))]

(* The builders that drive the SDK's V4PositionPlanner: the plan is the list *)
(* of calls made on the planner, and finalize() hands back its actions and  *)
(* its parameter blocks, one per action.                                    *)

\* the decimal digits value.toString() writes for a non-negative bigint
RECURSIVE DecimalDigits(_)
DecimalDigits(v) ==
    IF v < 10 THEN <<v>> ELSE Append(DecimalDigits(v \div 10), v % 10)

\* const toBigintIsh = (value: bigint): string => value.toString()
toBigintIsh(value) ==
    IF value < 0
    THEN [negative |-> TRUE, digits |-> DecimalDigits(-value)]
    ELSE [negative |-> FALSE, digits |-> DecimalDigits(value)]

\* the number a decimal string stands for
RECURSIVE DigitsValue(_)
DigitsValue(digits) ==
    IF digits = <<>> THEN 0
    ELSE 10 * DigitsValue(SubSeq(digits, 1, Len(digits) - 1))
         + digits[Len(digits)]

bigintIshValue(x) ==
    IF x.negative THEN -DigitsValue(x.digits) ELSE DigitsValue(x.digits)

\* planner.addMint(pool, tickLower, tickUpper, liquidity, amount0Max,
\* amount1Max, owner, hookData)
addMint(p) ==
    [action |-> "MINT_POSITION",
     params |-> [currency0 |-> p.currency0, currency1 |-> p.currency1,
                 fee |-> p.fee, tickSpacing |-> p.tickSpacing,
                 hooks |-> p.hooks,
                 tickLower |-> p.tickLower, tickUpper |-> p.tickUpper,
                 liquidity |-> toBigintIsh(p.liquidity),
                 amount0Max |-> toBigintIsh(p.amount0Max),
                 amount1Max |-> toBigintIsh(p.amount1Max),
                 owner |-> p.owner, hookData |-> hookDataOr(p.hookData)]]

\* planner.addSettlePair(params.pool.currency0, params.pool.currency1)
addSettlePair(p) ==
    [action |-> "SETTLE_PAIR",
     params |-> [currency0 |-> p.currency0, currency1 |-> p.currency1]]

\* planner.addTakePair(params.currency0, params.currency1, params.recipient)
addTakePair(p) ==
    [action |-> "TAKE_PAIR",
     params |-> [currency0 |-> p.currency0, currency1 |-> p.currency1,
                 recipient |-> p.recipient]]

\* planner.addDecrease(tokenId, liquidity, amount0Min, amount1Min, hookData)
addDecrease(tokenId, liquidity, amount0Min, amount1Min, hookData) ==
    [action |-> "DECREASE_LIQUIDITY",
     params |-> [tokenId |-> tokenId, liquidity |-> liquidity,
                 amount0Min |-> amount0Min, amount1Min |-> amount1Min,
                 hookData |-> hookData]]

\* planner.finalize(): the actions and the parameter blocks of the calls
finalize(calls) ==
    [actions |-> [i \in 1..Len(calls) |-> calls[i].action],
     params |-> [i \in 1..Len(calls) |-> calls[i].params]]

\* what the SDK's encoder does with a value that does not fit its ABI type
SdkOutcomes == {"encodes", "throws"}

SdkError == UnlockError("sdk: value out-of-bounds")

\* mutant: the pair is taken instead of settled
bootstrapCalls_takePair(p) == <<addMint(p), addTakePair(p)>>

\* the calls buildBootstrapUnlockData makes on the planner
bootstrapCalls(p) == <<addMint(p), addSettlePair(p)>>

buildBootstrapUnlockData(p, sdk) ==
    IF (p.amount0Max > MAX_UINT128 \/ p.amount1Max > MAX_UINT128)
       /\ sdk = "throws"
    THEN SdkError
    ELSE UnlockData(finalize(bootstrapCalls(p)))

\* mutant: the decrease is built from the position's amounts
collectDecrease_fromParams(p) ==
    addDecrease(toBigintIsh(p.tokenId), p.liquidity, p.amount0Min,
                p.amount1Min, hookDataOr(p.hookData))

\* planner.addDecrease(toBigintIsh(params.tokenId), 0, 0, 0, hookData)
collectDecrease(p) ==
    addDecrease(toBigintIsh(p.tokenId), 0, 0, 0, hookDataOr(p.hookData))

buildCollectUnlockData(p) ==
    UnlockData(finalize(<<collectDecrease(p), addTakePair(p)>>))

buildCloseUnlockData(p, sdk) ==
    IF (p.amount0Min > MAX_UINT128 \/ p.amount1Min > MAX_UINT128)
       /\ sdk = "throws"
    THEN SdkError
    ELSE UnlockData(finalize(
             <<addDecrease(toBigintIsh(p.tokenId), toBigintIsh(p.liquidity),
                           toBigintIsh(p.amount0Min),
                           toBigintIsh(p.amount1Min),
                           hookDataOr(p.hookData)),
               addTakePair(p)>>))

HexValues ==
    {NoHex} \cup {[given |-> TRUE, bytes |-> b] :
                    b \in {<<>>, <<18, 52>>, <<1, 2, 3, 4>>}}

BurnArgs ==
    {[NoPlannerArgs EXCEPT !.tokenId = t, !.amount0Min = a0,
         !.amount1Min = a1, !.hookData = h, !.currency0 = c0,
         !.currency1 = 2, !.recipient = 3] :
       t \in {0, 123}, a0 \in {-1, 5, MAX_UINT128, MAX_UINT128 + 1},
       a1 \in {-1, 6, MAX_UINT128 + 1}, h \in HexValues, c0 \in {1, 10}}

RebalanceArgs ==
    {[NoPlannerArgs EXCEPT !.oldTokenId = 7, !.oldLiquidity = ol,
         !.amount0Min = a0, !.amount1Min = 1, !.hookData = h,
         !.currency0 = 1, !.currency1 = 2, !.fee = 3000,
         !.tickSpacing = 60, !.hooks = 0, !.newTickLower = lo,
         !.newTickUpper = lo + 1200, !.newLiquidity = nl,
         !.amount0Max = m0, !.amount1Max = m1, !.owner = 4] :
       ol \in {0, 1000}, a0 \in {0, MAX_UINT128 + 1}, h \in HexValues,
       lo \in {-887220, -600, 0}, nl \in {0, 9, MAX_UINT128 + 1},
       m0 \in {5, MAX_UINT128}, m1 \in {6, MAX_UINT128 + 1}}

BootstrapArgs ==
    {[NoPlannerArgs EXCEPT !.currency0 = 1, !.currency1 = 2, !.fee = 3000,
         !.tickSpacing = 60, !.hooks = 0, !.tickLower = -60,
         !.tickUpper = 120, !.liquidity = l, !.amount0Max = m0,
         !.amount1Max = m1, !.owner = 3, !.hookData = h] :
       l \in {1, MAX_UINT128 + 1}, m0 \in {1, MAX_UINT128, MAX_UINT128 + 1},
       m1 \in {1, MAX_UINT128 + 1}, h \in HexValues}

\* the params of buildCollectUnlockData and buildCloseUnlockData: a position
\* with its liquidity and minimum amounts
PositionArgs ==
    {[NoPlannerArgs EXCEPT !.tokenId = t, !.liquidity = l,
         !.amount0Min = a0, !.amount1Min = a1, !.hookData = h,
         !.currency0 = 1, !.currency1 = 2, !.recipient = 5] :
       t \in {0, 123}, l \in {0, 1000, MAX_UINT128 + 1},
       a0 \in {0, 7, MAX_UINT128 + 1}, a1 \in {0, 8}, h \in HexValues}

PlannerInit ==
    /\ TickIdle
    /\ AmountIdle
    /\ BoundaryIdle
    /\ CommandIdle
    /\ CooldownIdle
    /\ ppc = "start"
    /\ pfn = "none"
    /\ pargs \in BurnArgs \cup RebalanceArgs \cup BootstrapArgs
                \cup PositionArgs
    /\ unlockData = NoUnlockData

PlannerApply(fn, res) ==
    /\ ppc = "start"
    /\ ppc' = "done"
    /\ pfn' = fn
    /\ unlockData' = res
    /\ UNCHANGED pargs
    /\ UNCHANGED <<tickVars, amountVars, boundaryVars, commandVars,
                   cooldownVars>>

CallBuildBurnPositionUnlockData ==
    /\ pargs \in BurnArgs
    /\ PlannerApply("buildBurnPositionUnlockData",
                    buildBurnPositionUnlockData(pargs))

CallBuildRebalanceUnlockData ==
    /\ pargs \in RebalanceArgs
    /\ PlannerApply("buildRebalanceUnlockData",
                    buildRebalanceUnlockData(pargs))

CallBuildBootstrapUnlockData ==
    /\ pargs \in BootstrapArgs
    /\ \E sdk \in SdkOutcomes :
          PlannerApply("buildBootstrapUnlockData",
                       buildBootstrapUnlockData(pargs, sdk))

CallBuildCollectUnlockData ==
    /\ pargs \in PositionArgs
    /\ PlannerApply("buildCollectUnlockData", buildCollectUnlockData(pargs))

CallBuildCloseUnlockData ==
    /\ pargs \in PositionArgs
    /\ \E sdk \in SdkOutcomes :
          PlannerApply("buildCloseUnlockData",
                       buildCloseUnlockData(pargs, sdk))

PlannerNext ==
    \/ CallBuildBurnPositionUnlockData
    \/ CallBuildRebalanceUnlockData
    \/ CallBuildBootstrapUnlockData
    \/ CallBuildCollectUnlockData
    \/ CallBuildCloseUnlockData

SpecPlanner == PlannerInit /\ [][PlannerNext]_vars

\* C19: a Rebalance payload encodes exactly the four actions
\* DecreaseLiquidity (0x01) of the old position, MintPosition (0x02) of the
\* new range, CloseCurrency (0x12) of currency0, CloseCurrency (0x12) of
\* currency1, with one parameter block per action in the same order.
C19_RebalanceFourActions ==
    (ppc = "done" /\ pfn = "buildRebalanceUnlockData" /\ unlockData.ok) =>
        LET d == decodeUnlockData(unlockData.data)
            h == hookDataOr(pargs.hookData)
        IN /\ d.actions = <<1, 2, 18, 18>>
           /\ Len(d.params) = 4
           /\ decodeDecreaseParams(d.params[1]) =
                 [tokenId |-> pargs.oldTokenId,
                  liquidity |-> pargs.oldLiquidity,
                  amount0Min |-> pargs.amount0Min,
                  amount1Min |-> pargs.amount1Min, hookData |-> h]
           /\ decodeMintParams(d.params[2]) =
                 [currency0 |-> pargs.currency0,
                  currency1 |-> pargs.currency1, fee |-> pargs.fee,
                  tickSpacing |-> pargs.tickSpacing, hooks |-> pargs.hooks,
                  tickLower |-> pargs.newTickLower,
                  tickUpper |-> pargs.newTickUpper,
                  liquidity |-> pargs.newLiquidity,
                  amount0Max |-> pargs.amount0Max,
                  amount1Max |-> pargs.amount1Max, owner |-> pargs.owner,
                  hookData |-> h]
           /\ d.params[3] = encodeUint(pargs.currency0)
           /\ decodeUint(d.params[3], 0) = pargs.currency0
           /\ d.params[4] = encodeUint(pargs.currency1)
           /\ decodeUint(d.params[4], 0) = pargs.currency1

\* C19 witness: a payload for a new range with a negative lower tick
C19_Witness ==
    /\ ppc = "done"
    /\ pfn = "buildRebalanceUnlockData"
    /\ unlockData.ok
    /\ pargs.newTickLower < 0
    /\ pargs.hookData.given
    /\ Len(decodeUnlockData(unlockData.data).params) = 4

\* the arguments pass the checks of buildBurnPositionUnlockData
ValidBurnArgs ==
    /\ pargs.amount0Min >= 0
    /\ pargs.amount1Min >= 0
    /\ pargs.amount0Min <= MAX_UINT128
    /\ pargs.amount1Min <= MAX_UINT128

\* C20: for every valid input the payload of buildBurnPositionUnlockData
\* decodes to actions [0x03, 0x11] and two parameter blocks that decode to
\* the supplied (tokenId, amount0Min, amount1Min, hookData) and (currency0,
\* currency1, recipient); an omitted hookData decodes to empty bytes.
C20_BurnRoundTrip ==
    (ppc = "done" /\ pfn = "buildBurnPositionUnlockData") =>
        /\ unlockData.ok <=> ValidBurnArgs
        /\ unlockData.ok =>
              LET d == decodeUnlockData(unlockData.data) IN
              /\ d.actions = <<3, 17>>
              /\ Len(d.params) = 2
              /\ decodeBurnParams(d.params[1]) =
                    [tokenId |-> pargs.tokenId,
                     amount0Min |-> pargs.amount0Min,
                     amount1Min |-> pargs.amount1Min,
                     hookData |-> IF pargs.hookData.given
                                  THEN pargs.hookData.bytes ELSE <<>>]
              /\ decodeTakeParams(d.params[2]) =
                    [currency0 |-> pargs.currency0,
                     currency1 |-> pargs.currency1,
                     recipient |-> pargs.recipient]

\* C20 witness: hookData omitted, amount0Min at the uint128 maximum
C20_Witness ==
    /\ ppc = "done"
    /\ pfn = "buildBurnPositionUnlockData"
    /\ unlockData.ok
    /\ ~pargs.hookData.given
    /\ pargs.amount0Min = MAX_UINT128
    /\ decodeBurnParams(decodeUnlockData(unlockData.data).params[1]).hookData
          = <<>>


-----------------------------------------------------------------------------
(* The new range of rebalanceCommand *)

\* rebalanceCommand has computed the new range
RebalanceRangeComputed == command = "rebalance" /\ crange.ok

\* C30 as stated: past range computation the new range of rebalanceCommand
\* includes the current tick, newLower <= tickCurrent < newUpper, also when
\* the range was clamped at a global bound.
C30_RebalanceRangeIncludesTick ==
    RebalanceRangeComputed =>
        /\ crange.lower <= opts.tickCurrent
        /\ opts.tickCurrent < crange.upper

\* C30 amended: newLower <= tickCurrent <= newUpper, and tickCurrent <
\* newUpper unless the tick is the max aligned tick of the spacing, where the
\* clamped range ends at the tick.
C30_RebalanceRangeAroundTick ==
    RebalanceRangeComputed =>
        /\ crange.lower <= opts.tickCurrent
        /\ opts.tickCurrent <= crange.upper
        /\ crange.upper - crange.lower = opts.widthTicks
        /\ opts.tickCurrent = crange.upper =>
              opts.tickCurrent = maxAlignedTick(opts.tickSpacing)
        /\ opts.tickCurrent = maxAlignedTick(opts.tickSpacing) =>
              crange.upper = opts.tickCurrent

\* C30 witness: a range clamped at the min aligned tick, the tick on its
\* lower end
C30_Witness ==
    /\ RebalanceRangeComputed
    /\ cpc = "done"
    /\ opts.tickCurrent = minAlignedTick(opts.tickSpacing)
    /\ crange.lower = opts.tickCurrent
    /\ opts.tickCurrent < crange.upper


-----------------------------------------------------------------------------
(* The plans built on the SDK planner *)

\* the builder returned a plan
Built(fn) == ppc = "done" /\ pfn = fn /\ unlockData.ok

\* C21 as stated: the Bootstrap payload of buildBootstrapUnlockData is
\* exactly two actions in this order: MintPosition (0x02) followed by
\* TakePair (0x11).
C21_BootstrapMintThenTakePair ==
    Built("buildBootstrapUnlockData") =>
        unlockData.data.actions = <<"MINT_POSITION", "TAKE_PAIR">>

\* C21 amended: the Bootstrap payload is exactly two actions in this order:
\* MintPosition of the given range, liquidity and maximum amounts for the
\* owner, followed by SettlePair of the pool's two currencies; it holds no
\* TakePair.
C21_BootstrapMintThenSettlePair ==
    Built("buildBootstrapUnlockData") =>
        LET d == unlockData.data IN
        /\ d.actions = <<"MINT_POSITION", "SETTLE_PAIR">>
        /\ Len(d.params) = 2
        /\ d.params[1].tickLower = pargs.tickLower
        /\ d.params[1].tickUpper = pargs.tickUpper
        /\ bigintIshValue(d.params[1].liquidity) = pargs.liquidity
        /\ bigintIshValue(d.params[1].amount0Max) = pargs.amount0Max
        /\ bigintIshValue(d.params[1].amount1Max) = pargs.amount1Max
        /\ d.params[1].owner = pargs.owner
        /\ d.params[2] = [currency0 |-> pargs.currency0,
                          currency1 |-> pargs.currency1]

\* C21 witness: a bootstrap plan with hookData omitted
C21_Witness ==
    /\ Built("buildBootstrapUnlockData")
    /\ ~pargs.hookData.given
    /\ pargs.amount0Max = MAX_UINT128
    /\ unlockData.data.actions[2] = "SETTLE_PAIR"

\* C22: the Collect payload of buildCollectUnlockData is always
\* [DecreaseLiquidity, TakePair], the decrease carrying liquidity = 0 and
\* amount0Min = amount1Min = 0 for the given tokenId: a collect never removes
\* liquidity from the position.
C22_CollectZeroDecrease ==
    (ppc = "done" /\ pfn = "buildCollectUnlockData") =>
        /\ unlockData.ok
        /\ LET d == unlockData.data IN
           /\ d.actions = <<"DECREASE_LIQUIDITY", "TAKE_PAIR">>
           /\ Len(d.params) = 2
           /\ bigintIshValue(d.params[1].tokenId) = pargs.tokenId
           /\ d.params[1].liquidity = 0
           /\ d.params[1].amount0Min = 0
           /\ d.params[1].amount1Min = 0
           /\ d.params[2] = [currency0 |-> pargs.currency0,
                             currency1 |-> pargs.currency1,
                             recipient |-> pargs.recipient]

\* C22 witness: a collect for a position that holds liquidity
C22_Witness ==
    /\ Built("buildCollectUnlockData")
    /\ pargs.tokenId = 123
    /\ pargs.liquidity > 0
    /\ pargs.amount0Min > 0
    /\ unlockData.data.params[1].liquidity = 0

\* a liquidity or amount argument of the builder is above 2^128 - 1
ExceedsUint128 ==
    \/ pargs.amount0Min > MAX_UINT128
    \/ pargs.amount1Min > MAX_UINT128
    \/ pargs.amount0Max > MAX_UINT128
    \/ pargs.amount1Max > MAX_UINT128
    \/ pargs.liquidity > MAX_UINT128
    \/ pargs.oldLiquidity > MAX_UINT128
    \/ pargs.newLiquidity > MAX_UINT128

\* C23: every plan builder that takes amount0Min/amount1Min,
\* amount0Max/amount1Max or liquidity (bootstrap, rebalance, burn/close)
\* fails with a ValueExceedsUint128 error, before any parameter block is
\* encoded, whenever one of those values is greater than 2^128 - 1.
C23_BuildersRejectAboveUint128 ==
    (/\ ppc = "done"
     /\ pfn \in {"buildBootstrapUnlockData", "buildRebalanceUnlockData",
                 "buildBurnPositionUnlockData", "buildCloseUnlockData"}
     /\ ExceedsUint128) =>
        /\ ~unlockData.ok
        /\ unlockData.err \in {"amount0Min/amount1Min exceeds uint128",
                               "amount0Max/amount1Max exceeds uint128",
                               "amount0Min/amount1Min must be non-negative"}


-----------------------------------------------------------------------------
(* The cooldown gate (policy/policy.ts) and the commands that use it.       *)
(* A command is a keeper process run; every await on the state file is a    *)
(* step of its own, so the clock and other processes can move in between.   *)

\* the clock runs up to MaxNow seconds
MaxNow == 4

\* the positive policy.cooldownSeconds under test
CooldownLen == 2

CooldownValues == {0, CooldownLen}

\* config.vaultAddress as configured: two spellings of one vault, and another
VaultAddresses == {"0xAB", "0xab", "0xcd"}

\* vaultAddress.toLowerCase()
toLowerCase(a) == IF a = "0xAB" THEN "0xab" ELSE a

KeeperCommands == {"bootstrap", "collect", "rebalance", "closePosition"}

\* the commands with a force option
takesForce(cmd) == cmd \in {"rebalance", "closePosition"}

nonCooldownVars ==
    <<tickVars, amountVars, boundaryVars, commandVars, plannerVars>>

\* mutant: the file is never read
readState_empty(f) == EmptyMap

\* readState: the parsed file, {} when it cannot be read
readState(f) == IF f.exists THEN f.lastActionAt ELSE EmptyMap

\* writeState: the file holds the state
writeState(state) == [exists |-> TRUE, lastActionAt |-> state]

\* { ...(state.lastActionAt ?? {}), [key]: value }
Put(m, key, value) ==
    [k \in DOMAIN m \cup {key} |-> IF k = key THEN value ELSE m[k]]

\* mutant: a cooldown of zero seconds still records
cooldownDisabled_negative(cd) == cd < 0

\* if (policy.cooldownSeconds <= 0) return
cooldownDisabled(cd) == cd <= 0

\* mutant: the window is one second longer
nextAllowed_plusOne(last, cd) == last + cd + 1

\* const nextAllowed = last + policy.cooldownSeconds
nextAllowed(last, cd) == last + cd

\* mutant: any recorded action blocks, however old
cooldownActive_anyEntry(state, key, cd, t) == key \in DOMAIN state

\* assertCooldown past the cooldownSeconds guard throws: last is set (!last
\* is false) and nowSeconds() < nextAllowed
cooldownActive(state, key, cd, t) ==
    /\ key \in DOMAIN state
    /\ state[key] # 0
    /\ t < nextAllowed(state[key], cd)

\* mutant: a forced close sends without recording
recordsAction_unlessForced(run) == ~run.force

\* every command calls recordAction after it has sent and reported
recordsAction(run) == TRUE

KeyOf(p) == toLowerCase(krun[p].vaultAddress)

\* the command starts
Start(p, cmd, addr, force, send) ==
    /\ kpc[p] = "idle"
    /\ kpc' = [kpc EXCEPT ![p] = "begin"]
    /\ krun' = [krun EXCEPT ![p] = [command |-> cmd, vaultAddress |-> addr,
                                    force |-> force, send |-> send,
                                    sentAt |-> 0]]
    /\ koutcome' = [koutcome EXCEPT ![p] = "running"]
    /\ UNCHANGED <<now, cooldownSeconds, file, kstate, lastSent,
                   recordedAt>>
    /\ UNCHANGED nonCooldownVars

\* the command returns or throws
End(p, how) ==
    /\ kpc' = [kpc EXCEPT ![p] = "idle"]
    /\ krun' = [krun EXCEPT ![p] = NoRun]
    /\ koutcome' = [koutcome EXCEPT ![p] = how]
    /\ kstate' = [kstate EXCEPT ![p] = EmptyMap]

Goto(p, pc) ==
    /\ kpc' = [kpc EXCEPT ![p] = pc]
    /\ kstate' = [kstate EXCEPT ![p] = EmptyMap]
    /\ UNCHANGED <<krun, koutcome>>

\* rebalanceCommand: if (!options.force && !shouldRebalance) report and return
SkipRebalance(p) ==
    /\ kpc[p] = "begin"
    /\ krun[p].command = "rebalance"
    /\ ~krun[p].force
    /\ End(p, "skip: Trigger conditions not met")
    /\ UNCHANGED <<now, cooldownSeconds, file, lastSent, recordedAt>>
    /\ UNCHANGED nonCooldownVars

\* a KeeperError of the command's own checks, before anything is sent
FailBeforeSend(p) ==
    /\ kpc[p] \in {"begin", "plan"}
    /\ End(p, "failed before sending")
    /\ UNCHANGED <<now, cooldownSeconds, file, lastSent, recordedAt>>
    /\ UNCHANGED nonCooldownVars

\* closePositionCommand: if (options.force) logger.warn("Cooldown ignored")
IgnoreCooldown(p) ==
    /\ kpc[p] = "begin"
    /\ krun[p].command = "closePosition"
    /\ krun[p].force
    /\ Goto(p, "plan")
    /\ UNCHANGED <<now, cooldownSeconds, file, lastSent, recordedAt>>
    /\ UNCHANGED nonCooldownVars

\* assertCooldown up to its await: return when cooldownSeconds <= 0, else
\* read the state file
AssertCooldownEnter(p) ==
    /\ kpc[p] = "begin"
    /\ ~(krun[p].command = "closePosition" /\ krun[p].force)
    /\ IF cooldownDisabled(cooldownSeconds)
       THEN Goto(p, "plan")
       ELSE /\ kpc' = [kpc EXCEPT ![p] = "assert"]
            /\ kstate' = [kstate EXCEPT ![p] = readState(file)]
            /\ UNCHANGED <<krun, koutcome>>
    /\ UNCHANGED <<now, cooldownSeconds, file, lastSent, recordedAt>>
    /\ UNCHANGED nonCooldownVars

\* assertCooldown after its await, and what the command does with the throw:
\* rebalanceCommand skips (or goes on when forced), the others fail
AssertCooldownReturn(p) ==
    /\ kpc[p] = "assert"
    /\ IF ~cooldownActive(kstate[p], KeyOf(p), cooldownSeconds, now)
       THEN Goto(p, "plan")
       ELSE IF krun[p].command = "rebalance" /\ krun[p].force
       THEN Goto(p, "plan")
       ELSE IF krun[p].command = "rebalance"
       THEN End(p, "skip: Skipped due to cooldown")
       ELSE End(p, "Cooldown active")
    /\ UNCHANGED <<now, cooldownSeconds, file, lastSent, recordedAt>>
    /\ UNCHANGED nonCooldownVars

\* const dryRun = !options.send; if (dryRun) return
DryRun(p) ==
    /\ kpc[p] = "plan"
    /\ ~krun[p].send
    /\ End(p, "dry-run")
    /\ UNCHANGED <<now, cooldownSeconds, file, lastSent, recordedAt>>
    /\ UNCHANGED nonCooldownVars

\* walletClient.writeContract: the transaction is broadcast
Send(p) ==
    /\ kpc[p] = "plan"
    /\ krun[p].send
    /\ kpc' = [kpc EXCEPT ![p] = "sent"]
    /\ krun' = [krun EXCEPT ![p].sentAt = now]
    /\ lastSent' = Put(lastSent, KeyOf(p),
                       [at |-> now, force |-> krun[p].force])
    /\ UNCHANGED <<now, cooldownSeconds, file, kstate, koutcome, recordedAt>>
    /\ UNCHANGED nonCooldownVars

\* the receipt and the report are in; recordAction up to its await: return
\* when cooldownSeconds <= 0, else read the state file
RecordActionEnter(p) ==
    /\ kpc[p] = "sent"
    /\ IF ~recordsAction(krun[p]) \/ cooldownDisabled(cooldownSeconds)
       THEN End(p, "sent")
       ELSE /\ kpc' = [kpc EXCEPT ![p] = "record"]
            /\ kstate' = [kstate EXCEPT ![p] = readState(file)]
            /\ UNCHANGED <<krun, koutcome>>
    /\ UNCHANGED <<now, cooldownSeconds, file, lastSent, recordedAt>>
    /\ UNCHANGED nonCooldownVars

\* recordAction after its await: writeState({...state, lastActionAt:
\* {...lastActionAt, [key]: nowSeconds()}})
RecordActionWrite(p) ==
    /\ kpc[p] = "record"
    /\ file' = writeState(Put(kstate[p], KeyOf(p), now))
    /\ recordedAt' = Put(recordedAt, KeyOf(p), now)
    /\ End(p, "sent")
    /\ UNCHANGED <<now, cooldownSeconds, lastSent>>
    /\ UNCHANGED nonCooldownVars

\* a second passes
Tick ==
    /\ now < MaxNow
    /\ now' = now + 1
    /\ UNCHANGED <<cooldownSeconds, file, kpc, krun, kstate, koutcome,
                   lastSent, recordedAt>>
    /\ UNCHANGED nonCooldownVars

\* one keeper process runs the four commands one after another
CooldownInit ==
    /\ TickIdle
    /\ AmountIdle
    /\ BoundaryIdle
    /\ CommandIdle
    /\ PlannerIdle
    /\ now = 1
    /\ cooldownSeconds \in CooldownValues
    /\ file = NoFile
    /\ kpc = [k \in Keepers |-> "idle"]
    /\ krun = [k \in Keepers |-> NoRun]
    /\ kstate = [k \in Keepers |-> EmptyMap]
    /\ koutcome = [k \in Keepers |-> "none"]
    /\ lastSent = EmptyMap
    /\ recordedAt = EmptyMap

KeeperStart ==
    \E cmd \in KeeperCommands, addr \in VaultAddresses,
       force \in BOOLEAN, send \in BOOLEAN :
        /\ force => takesForce(cmd)
        /\ Start("k1", cmd, addr, force, send)

KeeperSkipRebalance == \E p \in Keepers : SkipRebalance(p)

KeeperFailBeforeSend == \E p \in Keepers : FailBeforeSend(p)

KeeperIgnoreCooldown == \E p \in Keepers : IgnoreCooldown(p)

KeeperAssertCooldownEnter == \E p \in Keepers : AssertCooldownEnter(p)

KeeperAssertCooldownReturn == \E p \in Keepers : AssertCooldownReturn(p)

KeeperDryRun == \E p \in Keepers : DryRun(p)

KeeperSend == \E p \in Keepers : Send(p)

KeeperRecordActionEnter == \E p \in Keepers : RecordActionEnter(p)

KeeperRecordActionWrite == \E p \in Keepers : RecordActionWrite(p)

CooldownNext ==
    \/ KeeperStart
    \/ KeeperSkipRebalance
    \/ KeeperFailBeforeSend
    \/ KeeperIgnoreCooldown
    \/ KeeperAssertCooldownEnter
    \/ KeeperAssertCooldownReturn
    \/ KeeperDryRun
    \/ KeeperSend
    \/ KeeperRecordActionEnter
    \/ KeeperRecordActionWrite
    \/ Tick

SpecCooldown == CooldownInit /\ [][CooldownNext]_vars

\* two keeper processes run collectCommand with --send, each for its vault
RaceAddresses == {"0xAB", "0xab", "0xcd"} \ {"0xab"}

RaceStart ==
    \E p \in Keepers, addr \in RaceAddresses :
        Start(p, "collect", addr, FALSE, TRUE)

RaceInit ==
    /\ CooldownInit
    /\ cooldownSeconds > 0

RaceNext ==
    \/ RaceStart
    \/ KeeperAssertCooldownEnter
    \/ KeeperAssertCooldownReturn
    \/ KeeperSend
    \/ KeeperRecordActionEnter
    \/ KeeperRecordActionWrite
    \/ Tick

SpecCooldownRace == RaceInit /\ [][RaceNext]_vars


-----------------------------------------------------------------------------
(* Properties of the cooldown gate *)

\* p's assertCooldown returns or throws in this step
AssertCooldownDone(p) == kpc[p] = "assert" /\ kpc'[p] # "assert"

\* p's command ends in this step after it has sent its transaction
SentRunEnds(p) == kpc[p] \in {"sent", "record"} /\ kpc'[p] = "idle"

\* recordAction has completed for the key less than cooldownSeconds ago
InsideWindow(key) ==
    /\ key \in DOMAIN recordedAt
    /\ now < recordedAt[key] + cooldownSeconds

\* C24: for every target and cooldownSeconds > 0, after recordAction(target)
\* at time t, assertCooldown(target) fails at every time now < t +
\* cooldownSeconds and succeeds at every time now >= t + cooldownSeconds; a
\* target with no recorded action is always ready.
C24_GateFollowsRecordedAction ==
    [][\A p \in Keepers :
          (AssertCooldownDone(p) /\ ~krun[p].force /\ cooldownSeconds > 0) =>
              (kpc'[p] = "plan" <=> ~InsideWindow(KeyOf(p)))]_vars

\* C24 witness: the gate lets a run through once the window of a recorded
\* action has passed, while another target was never recorded
C24_Witness ==
    /\ kpc["k1"] = "plan"
    /\ ~krun["k1"].force
    /\ cooldownSeconds > 0
    /\ KeyOf("k1") \in DOMAIN recordedAt
    /\ now >= recordedAt[KeyOf("k1")] + cooldownSeconds
    /\ DOMAIN recordedAt = {KeyOf("k1")}

C26_OnlyRecordActionWrites ==
    [][file' # file =>
          /\ cooldownSeconds > 0
          /\ \E p \in Keepers :
                /\ kpc[p] = "record"
                /\ kpc'[p] = "idle"
                /\ file'.exists
                /\ file'.lastActionAt[KeyOf(p)] = now]_vars

\* C26 witness: a dry run has ended and the file holds what recordAction
\* wrote before it
C26_Witness ==
    /\ koutcome["k1"] = "dry-run"
    /\ file.exists
    /\ file.lastActionAt = recordedAt
    /\ DOMAIN recordedAt # {}

C27_GateIgnoresPendingRuns ==
    [][\A p, q \in Keepers :
          (/\ p # q
           /\ AssertCooldownDone(p)
           /\ kpc[q] \in {"plan", "sent", "record"}
           /\ KeyOf(q) = KeyOf(p)
           /\ ~(/\ KeyOf(p) \in DOMAIN kstate[p]
                /\ now < kstate[p][KeyOf(p)] + cooldownSeconds)) =>
              kpc'[p] = "plan"]_vars

\* C27 witness: both processes have passed the gate and broadcast for the
\* same vault less than cooldownSeconds apart, before either has recorded
C27_Witness ==
    /\ kpc["k1"] = "sent"
    /\ kpc["k2"] = "sent"
    /\ KeyOf("k1") = KeyOf("k2")
    /\ cooldownSeconds > 0
    /\ krun["k1"].sentAt < krun["k2"].sentAt
    /\ krun["k2"].sentAt - krun["k1"].sentAt < cooldownSeconds
    /\ KeyOf("k1") \notin DOMAIN recordedAt

\* C29: recordAction(target) preserves the lastActionAt entry of every other
\* target, also when two processes record actions for different targets
\* concurrently: a recorded timestamp is never lost through the
\* read-modify-write of the shared state file.
C29_RecordedNeverLost ==
    \A key \in DOMAIN recordedAt :
        /\ file.exists
        /\ key \in DOMAIN file.lastActionAt
        /\ file.lastActionAt[key] = recordedAt[key]


====
